---- MODULE Spec2Model ----
(***************************************************************************)
(* focusd: the supervisor (internal/daemon), the firewall controller        *)
(* (internal/nft), the sinkhole emitter (internal/dns), the resolver, the   *)
(* transparent proxy (internal/proxy) and the SNI parser (internal/sni).    *)
(*                                                                          *)
(* Three specifications share this module:                                  *)
(*   Spec       the daemon: start-up, reload, refresh tick, shutdown, with  *)
(*              the kernel packet-filter state, the files and the ports;    *)
(*   SpecProxy  the proxy's accept loops and per-connection handlers;       *)
(*   SpecSNI    ExtractSNI applied to bounded byte strings.                 *)
(***************************************************************************)
EXTENDS Integers, Sequences, FiniteSets, TLC

VARIABLES
    stateFile,   \* /var/lib/focusd/state: whether it exists and its bytes
    blocklist,   \* the blocklist source on disk (a sequence of domains)
    dnsWorld,    \* the system resolver: name -> set of addresses, or Fail
    kern,        \* kernel packet-filter and policy-routing state
    dnsFile,     \* the sinkhole file: NoFile or File(lines)
    proc,        \* the daemon process: "down", "running" or "exited"
    proxy,       \* Daemon.proxy: NoProxy or the referenced instance
    orphan,      \* a listening instance Daemon.proxy no longer references
    sigChan,     \* Run's sigChan (buffer of 1)
    last,        \* what the supervisor processed last
    conns,       \* the proxy's accepted connections
    alive,       \* the proxy's process has not panicked
    loops,       \* the two accept loops
    sniIn,       \* input of ExtractSNI
    sniOut,      \* its result
    matchIn,     \* input of isBlocked: a hostname and the blocked domains
    matchOut,    \* its result
    resIn,       \* input of Resolve: the domains and the resolver's answers
    resOut,      \* its result
    usb,         \* what the verifier finds: the token hash file and the key files
    cli,         \* the enable/disable command that runs or ran last
    seen,        \* what IsEnabled returned to the process that called it last
    pktIn,       \* a packet and the chain of focusd_proxy it traverses
    pktOut,      \* the rule that ended the traversal and what it did
    inst,          \* one started proxy instance: listeners, accept loops, Stop
    flows,       \* its accepted connections against the clock
    now,         \* the clock, in seconds
    mode,        \* the state in which the supervisor last ran start-up or reload
    startIn,     \* where the system calls of one call of Start fail
    startOut,    \* what that call of Start leaves
    ctl          \* the controller operation applied last (SpecCtl)

daemonVars == <<stateFile, blocklist, dnsWorld, kern, dnsFile, proc, proxy,
                orphan, sigChan, last>>
proxyVars == <<conns, alive, loops>>
sniVars == <<sniIn, sniOut>>
matchVars == <<matchIn, matchOut>>
resolveVars == <<resIn, resOut>>
cliVars == <<usb, cli, seen>>
chainVars == <<pktIn, pktOut>>
lifeVars == <<inst, flows, now>>
startVars == <<startIn, startOut>>
unitVars == <<resolveVars, cliVars, chainVars, lifeVars, mode, startVars>>
vars == <<daemonVars, proxyVars, sniVars, matchVars, unitVars, ctl>>

----------------------------------------------------------------------------
(* Bounds of the model.                                                     *)

MaxCopies == 2    \* rule copies counted per chain; handlers are disabled
                  \* when a further apply would exceed it

----------------------------------------------------------------------------
(* Strings are sequences of bytes (ASCII codes).                             *)

HasPrefix(s, p) == Len(s) >= Len(p) /\ SubSeq(s, 1, Len(p)) = p

HasSuffix(s, p) == Len(s) >= Len(p) /\ SubSeq(s, Len(s) - Len(p) + 1, Len(s)) = p

Www == <<119, 119, 119, 46>>          \* "www."

DomA == <<97, 46, 99>>                \* "a.c"
DomB == <<119, 119, 119, 46, 98>>     \* "www.b"

\* Addresses (their textual form).
IpA == "192.0.2.1"
IpB == "192.0.2.2"
IpC == "2001:db8::3"
Nil == "nil"
Absent == [exists |-> FALSE, data |-> <<>>]    \* no state file

\* A resolution: the addresses of a name, or a lookup failure.
Fail == [ok |-> FALSE, ips |-> {}]
Addrs(S) == [ok |-> TRUE, ips |-> S]

\* The sinkhole file.
NoFile == [exists |-> FALSE, lines |-> <<>>]
File(lines) == [exists |-> TRUE, lines |-> lines]

\* Daemon.proxy = nil
NoProxy == [ref |-> "nil", blocked |-> <<>>, http |-> FALSE, https |-> FALSE]

\* The names the resolver can be asked for with the blocklists below.
Names == {DomA, Www \o DomA, DomB}

\* What the blocklist source can hold; the empty list is a file without domains.
Blocklists == {<<>>, <<DomA>>, <<DomB, DomA>>}

\* The resolver's answers the model considers: every name at IpA; DomA and
\* its www. name at IpB and IpC; DomA failing while the other names resolve.
DnsWorlds ==
    {[n \in Names |-> Addrs({IpA})],
     [n \in Names |-> IF n = Www \o DomA THEN Addrs({IpC}) ELSE Addrs({IpB})],
     [n \in Names |-> IF n = DomA THEN Fail
                      ELSE IF n = DomB THEN Addrs({IpC}) ELSE Addrs({IpA})]}

----------------------------------------------------------------------------
(* internal/sni                                                             *)
(*                                                                          *)
(* A byte slice is [runs, len, cap]: runs is the backing array, run-length  *)
(* encoded as a sequence of [b, n] (n bytes of value b), cap its size and   *)
(* len the length of the slice. Indices start at 0. An index expression     *)
(* data[i] needs i < len; a slice expression data[i:j] needs j <= cap.      *)

RECURSIVE RunsLen(_)
RunsLen(runs) == IF runs = <<>> THEN 0 ELSE Head(runs).n + RunsLen(Tail(runs))

RECURSIVE RunsAt(_, _)
RunsAt(runs, i) ==
    IF i < Head(runs).n THEN Head(runs).b ELSE RunsAt(Tail(runs), i - Head(runs).n)

At(d, i) == RunsAt(d.runs, i)

\* binary.BigEndian.Uint16(data[p : p+2])
Uint16(d, p) == At(d, p) * 256 + At(d, p + 1)

\* string(data[p : p+n])
Bytes(d, p, n) == [i \in 1..n |-> At(d, p + i - 1)]

contentTypeHandshake == 22
handshakeTypeClientHello == 1
extensionTypeSNI == 0
sniNameTypeHostname == 0

ErrNotHandshake == "not a TLS handshake record"
ErrNotClientHello == "not a ClientHello message"
ErrNoSNI == "no SNI extension found"
ErrInvalidData == "invalid TLS data"

\* A result of ExtractSNI: the hostname and the error; panic when the run-time
\* bounds check of an index or slice expression failed; over when a slice
\* expression reached past len (within cap), reading bytes that are not input.
Ret(host, err, over) == [host |-> host, err |-> err, panic |-> FALSE, over |-> over]
Panic(over) == [host |-> <<>>, err |-> "panic", panic |-> TRUE, over |-> over]

\* A variant of parseSNIExtension that takes the name length from one byte.
parseSNIExtensionByteLength(d, off, n, over) ==
    IF n < 5 THEN Ret(<<>>, ErrInvalidData, over)
    ELSE IF At(d, off + 2) # sniNameTypeHostname THEN Ret(<<>>, ErrNoSNI, over)
    ELSE
    LET nameLength == At(d, off + 4) IN
    IF 5 + nameLength > n THEN Ret(<<>>, ErrInvalidData, over)
    ELSE IF nameLength = 0 THEN Ret(<<>>, ErrNoSNI, over)
    ELSE Ret(Bytes(d, off + 5, nameLength), Nil, over)

\* parseSNIExtension(data[off : off+n])
parseSNIExtension(d, off, n, over) ==
    IF n < 5 THEN Ret(<<>>, ErrInvalidData, over)
    ELSE IF 2 >= n THEN Ret(<<>>, ErrInvalidData, over)
    ELSE
    LET nameType == At(d, off + 2) IN
    IF nameType # sniNameTypeHostname THEN Ret(<<>>, ErrNoSNI, over)
    ELSE IF 3 + 2 > n THEN Ret(<<>>, ErrInvalidData, over)
    ELSE
    LET nameLength == Uint16(d, off + 3) IN
    IF 5 + nameLength > n THEN Ret(<<>>, ErrInvalidData, over)
    ELSE
    LET hostname == Bytes(d, off + 5, nameLength) IN
    IF hostname = <<>> THEN Ret(<<>>, ErrNoSNI, over)
    ELSE Ret(hostname, Nil, over)

\* The extensions loop of ExtractSNI, lines 103-119. The two slice
\* expressions of the extension header are not preceded by a check against
\* len(data).
RECURSIVE ExtensionsLoop(_, _, _, _)
ExtensionsLoop(d, pos, extensionsEnd, over) ==
    IF pos + 4 <= extensionsEnd
    THEN IF pos + 4 > d.cap
         THEN Panic(over \/ (pos + 2 <= d.cap /\ pos + 2 > d.len))
         ELSE
         LET extType == Uint16(d, pos)
             extLength == Uint16(d, pos + 2)
             over1 == over \/ pos + 4 > d.len
             pos1 == pos + 4
         IN
         IF pos1 + extLength > d.len THEN Ret(<<>>, ErrInvalidData, over1)
         ELSE IF extType = extensionTypeSNI
         THEN parseSNIExtension(d, pos1, extLength, over1)
         ELSE ExtensionsLoop(d, pos1 + extLength, extensionsEnd, over1)
    ELSE Ret(<<>>, ErrNoSNI, over)

\* ExtractSNI. 5+recordLength is computed in uint16.
ExtractSNI(d) ==
    IF d.len < 5 THEN Ret(<<>>, ErrInvalidData, FALSE)
    ELSE
    LET contentType == At(d, 0)
        recordLength == Uint16(d, 3)
    IN
    IF contentType # contentTypeHandshake THEN Ret(<<>>, ErrNotHandshake, FALSE)
    ELSE IF d.len < (5 + recordLength) % 65536 THEN Ret(<<>>, ErrInvalidData, FALSE)
    ELSE IF d.len < 9 THEN Ret(<<>>, ErrInvalidData, FALSE)
    ELSE IF At(d, 5) # handshakeTypeClientHello THEN Ret(<<>>, ErrNotClientHello, FALSE)
    ELSE
    LET pos0 == 9 + 2 + 32 IN
    IF pos0 >= d.len THEN Ret(<<>>, ErrInvalidData, FALSE)
    ELSE
    LET sessionIDLength == At(d, pos0)
        pos1 == pos0 + 1 + sessionIDLength
    IN
    IF pos1 + 2 > d.len THEN Ret(<<>>, ErrInvalidData, FALSE)
    ELSE
    LET cipherSuitesLength == Uint16(d, pos1)
        pos2 == pos1 + 2 + cipherSuitesLength
    IN
    IF pos2 >= d.len THEN Ret(<<>>, ErrInvalidData, FALSE)
    ELSE
    LET compressionMethodsLength == At(d, pos2)
        pos3 == pos2 + 1 + compressionMethodsLength
    IN
    IF pos3 + 2 > d.len THEN Ret(<<>>, ErrInvalidData, FALSE)
    ELSE
    LET extensionsLength == Uint16(d, pos3)
        pos4 == pos3 + 2
    IN ExtensionsLoop(d, pos4, pos4 + extensionsLength, FALSE)

----------------------------------------------------------------------------
(* Byte strings the clients send                                            *)

B(x) == <<[b |-> x, n |-> 1]>>
Rep(x, k) == IF k = 0 THEN <<>> ELSE <<[b |-> x, n |-> k]>>
U16(v) == B(v \div 256) \o B(v % 256)
\* The bytes of str, equal neighbours gathered into one run.
Lit(str) ==
    LET starts == {i \in 1..Len(str) : i = 1 \/ str[i] # str[i - 1]}
        nth(k) == CHOOSE i \in starts : Cardinality({j \in starts : j < i}) = k - 1
        stop(i) == IF \E j \in starts : j > i
                   THEN CHOOSE j \in starts : j > i /\ \A m \in starts : m > i => j <= m
                   ELSE Len(str) + 1
    IN [k \in 1..Cardinality(starts) |-> [b |-> str[nth(k)], n |-> stop(nth(k)) - nth(k)]]

\* The first t bytes of a run-length encoded string.
RECURSIVE Take(_, _)
Take(runs, t) ==
    IF t = 0 \/ runs = <<>> THEN <<>>
    ELSE IF Head(runs).n >= t THEN <<[b |-> Head(runs).b, n |-> t]>>
    ELSE <<Head(runs)>> \o Take(Tail(runs), t - Head(runs).n)

\* A slice holding exactly the first t bytes of runs.
Exact(runs, t) == [runs |-> Take(runs, t), len |-> t, cap |-> t]

\* buf[:t] of a zeroed buffer of the given size that received the first t
\* bytes of runs.
InBuffer(runs, t, size) ==
    [runs |-> Take(runs, t) \o Rep(0, size - t), len |-> t, cap |-> size]

EmptySlice == [runs |-> <<>>, len |-> 0, cap |-> 0]

\* A server_name extension: list length, name type, name length as declared,
\* the name.
SniExt(nameType, declared, name) ==
    U16(0) \o U16(5 + Len(name)) \o U16(3 + Len(name))
           \o B(nameType) \o U16(declared) \o Lit(name)

\* A server_name extension whose list holds the given entries, each a name
\* type and a name.
RECURSIVE SniEntries(_)
SniEntries(entries) ==
    IF entries = <<>> THEN <<>>
    ELSE B(Head(entries).type) \o U16(Len(Head(entries).name))
            \o Lit(Head(entries).name) \o SniEntries(Tail(entries))

SniExtList(entries) ==
    LET list == SniEntries(entries) IN
    U16(0) \o U16(2 + RunsLen(list)) \o U16(RunsLen(list)) \o list

\* An extension of another type with a body of k bytes.
OtherExt(type, k) == U16(type) \o U16(k) \o Rep(0, k)

\* A TLS record carrying a handshake message: content type ct, record length
\* as declared, handshake type hs, session id of sid bytes, cs bytes of cipher
\* suites, comp bytes of compression methods, extensions length as declared.
Hello(ct, recDeclared, hs, sid, cs, comp, extDeclared, exts) ==
    B(ct) \o B(3) \o B(3) \o U16(recDeclared)
          \o B(hs) \o B(0) \o U16(0)
          \o B(3) \o B(3) \o Rep(0, 32)
          \o B(sid) \o Rep(0, sid)
          \o U16(cs) \o Rep(0, cs)
          \o B(comp) \o Rep(0, comp)
          \o U16(extDeclared) \o exts

\* The length of that record's body when the record is complete.
BodyLen(sid, cs, comp, exts) == 4 + 34 + 1 + sid + 2 + cs + 1 + comp + 2 + RunsLen(exts)

\* A complete ClientHello with honest length fields.
WellFormed(sid, cs, comp, exts) ==
    Hello(contentTypeHandshake, BodyLen(sid, cs, comp, exts),
          handshakeTypeClientHello, sid, cs, comp, RunsLen(exts), exts)

\* buildSNIExtension and buildSimpleClientHello of the parser's tests: the
\* extensions length is written as 0x00 and one byte.
buildSNIExtension(hostname) ==
    LET serverName == B(0) \o U16(Len(hostname) % 65536) \o Lit(hostname)
        serverNameList == U16(RunsLen(serverName) % 65536) \o serverName
    IN U16(0) \o U16(RunsLen(serverNameList) % 65536) \o serverNameList

buildSimpleClientHello(hostname) ==
    LET sniExt == buildSNIExtension(hostname)
        extensions == B(0) \o B(RunsLen(sniExt) % 256) \o sniExt
        clientHello == B(3) \o B(3) \o Rep(0, 32) \o B(0)
                          \o B(0) \o B(2) \o B(0) \o B(47)
                          \o B(1) \o B(0) \o extensions
        handshake == B(1) \o B(0) \o U16(RunsLen(clientHello) % 65536) \o clientHello
    IN B(22) \o B(3) \o B(3) \o U16(RunsLen(handshake) % 65536) \o handshake

HostA == DomA                         \* "a.c"
HostSubA == <<120, 46, 97, 46, 99>>   \* "x.a.c"
HostD == <<100, 46, 101>>             \* "d.e"

\* Extension vectors: none; the server name alone; after another extension;
\* with a name type other than host_name; with an empty name; with a name
\* length reaching past the extension; another extension alone.
ExtVectors ==
    {<<>>,
     SniExt(0, Len(HostD), HostD),
     OtherExt(23, 0) \o SniExt(0, Len(HostA), HostA),
     SniExt(1, Len(HostD), HostD),
     SniExt(0, 0, <<>>),
     SniExt(0, Len(HostD) + 1, HostD),
     OtherExt(10, 2)}

\* Records for ExtractSNI: every content type, handshake type and declared
\* record length considered with one extension vector, and every extension
\* vector with the declared extensions length honest or too large.
Records ==
    {Hello(ct, rec, hs, 0, 2, 1, RunsLen(SniExt(0, Len(HostD), HostD)),
           SniExt(0, Len(HostD), HostD)) :
        ct \in {22, 23}, hs \in {1, 2},
        rec \in {0, BodyLen(0, 2, 1, SniExt(0, Len(HostD), HostD)),
                 65530, 65531, 65535}}
    \cup {Hello(22, BodyLen(sid, 2, 1, exts), 1, sid, 2, 1, RunsLen(exts) + extra, exts) :
        sid \in {0, 2}, extra \in {0, 4, 6}, exts \in ExtVectors}

----------------------------------------------------------------------------
(* internal/config                                                          *)

\* Config.LoadBlocklist with BlockedDomains empty: the blocklist file; a file
\* that holds no domains is an error.
LoadBlocklist(bl) ==
    IF Len(bl) = 0 THEN [err |-> "blocklist file contains no domains", domains |-> <<>>]
    ELSE [err |-> Nil, domains |-> bl]

----------------------------------------------------------------------------
(* internal/resolver                                                        *)

\* Resolver.Resolve: the loop over the domains, from index i on, into ipSet.
\* A name that fails ends the iteration for its domain (continue).
RECURSIVE ResolveFrom(_, _, _, _)
ResolveFrom(domains, i, dns, ipSet) ==
    IF i > Len(domains) THEN ipSet
    ELSE LET domain == domains[i] IN
         IF ~dns[domain].ok THEN ResolveFrom(domains, i + 1, dns, ipSet)
         ELSE LET s1 == ipSet \cup dns[domain].ips IN
              IF ~HasPrefix(domain, Www)
              THEN LET wwwDomain == Www \o domain IN
                   IF ~dns[wwwDomain].ok
                   THEN ResolveFrom(domains, i + 1, dns, s1)
                   ELSE ResolveFrom(domains, i + 1, dns, s1 \cup dns[wwwDomain].ips)
              ELSE ResolveFrom(domains, i + 1, dns, s1)

\* Resolve never returns an error.
Resolve(domains, dns) == [ips |-> ResolveFrom(domains, 1, dns, {}), err |-> Nil]

----------------------------------------------------------------------------
(* internal/dns                                                             *)

DnsHeader == <<[address |-> <<>>, to |-> "# focusd - DNS blocking configuration"],
               [address |-> <<>>, to |-> "# Auto-generated - do not edit manually"],
               [address |-> <<>>, to |-> ""]>>

\* The address= lines of Manager.ApplyRules, from domain i on.
RECURSIVE DnsLines(_, _)
DnsLines(domains, i) ==
    IF i > Len(domains) THEN <<>>
    ELSE LET domain == domains[i]
             base == <<[address |-> domain, to |-> "0.0.0.0"]>>
             www == IF ~HasPrefix(domain, Www)
                    THEN <<[address |-> Www \o domain, to |-> "0.0.0.0"]>>
                    ELSE <<>>
         IN base \o www \o DnsLines(domains, i + 1)

\* A variant of ApplyRules that writes behind what the file holds.
DnsApplyRulesAppending(file, domains, fault) ==
    IF fault = "dnsWrite" THEN [file |-> file, err |-> "writing dnsmasq config"]
    ELSE [file |-> File(file.lines \o DnsHeader \o DnsLines(domains, 1)), err |-> Nil]

\* dns.Manager.ApplyRules: os.WriteFile replaces the whole file.
DnsApplyRules(file, domains, fault) ==
    IF fault = "dnsWrite" THEN [file |-> file, err |-> "writing dnsmasq config"]
    ELSE [file |-> File(DnsHeader \o DnsLines(domains, 1)), err |-> Nil]

\* dns.Manager.RemoveRules: a missing file is not an error.
DnsRemoveRules(file) == [file |-> NoFile, err |-> Nil]

----------------------------------------------------------------------------
(* internal/nft: the kernel objects and the controller                      *)

RouteCmds == {"rule4", "route4", "rule6", "route6"}

NoKernel == [ipTable |-> FALSE, ipSet |-> {}, ipRules |-> 0,
             pxTable |-> FALSE, pxCopies |-> 0, routes |-> {}]

\* What the handler's environment does to it: at most one fault per handler,
\* and the form in which Flush reports the kernel's ENOENT (the errno itself,
\* or the netlink library's error wrapping it).
Faults == {"none", "stateRead", "dnsWrite", "flushAdd", "flushDel", "nft",
           "bindHTTP", "bindHTTPS"}
EnvsOf(faults) == {[fault |-> f, wrapped |-> FALSE] : f \in faults}
                  \cup {[fault |-> "none", wrapped |-> TRUE]}
Envs == EnvsOf(Faults)
\* The faults that can reach a refresh tick (it neither writes the sinkhole
\* file nor runs nft nor binds a port).
TickEnvs == EnvsOf({"none", "stateRead", "flushAdd", "flushDel"})

\* Manager.ApplyRules: one batch (AddTable, AddSet, SetAddElements, AddChain,
\* AddRule) committed by Flush. On an existing table the add commands keep
\* what is there: elements are added to the set and AddRule appends a rule.
NftApplyRules(k, ips, env) ==
    IF env.fault = "flushAdd"
    THEN [kern |-> k, err |-> "flushing nftables changes"]
    ELSE [kern |-> [k EXCEPT !.ipTable = TRUE,
                             !.ipSet = (IF k.ipTable THEN k.ipSet ELSE {}) \cup ips,
                             !.ipRules = (IF k.ipTable THEN k.ipRules ELSE 0) + 1],
          err |-> Nil]

\* The error Flush returns for DelTable: ENOENT from the kernel when the table
\* is absent, in the form env.wrapped says.
FlushDelTable(k, env) ==
    IF env.fault = "flushDel" THEN "EPERM"
    ELSE IF ~k.ipTable THEN (IF env.wrapped THEN "wrapped ENOENT" ELSE "ENOENT")
    ELSE Nil

\* Manager.RemoveRules: DelTable and Flush; err != unix.ENOENT is an error.
NftRemoveRules(k, env) ==
    LET e == FlushDelTable(k, env) IN
    IF e = Nil
    THEN [kern |-> [k EXCEPT !.ipTable = FALSE, !.ipSet = {}, !.ipRules = 0],
          err |-> Nil]
    ELSE IF e # "ENOENT"
    THEN [kern |-> k, err |-> "removing nftables rules"]
    ELSE [kern |-> k, err |-> Nil]

\* A variant of UpdateRules that adds without removing first.
NftUpdateRulesAddOnly(k, ips, env) == NftApplyRules(k, ips, env)

\* Manager.UpdateRules: RemoveRules, then ApplyRules.
NftUpdateRules(k, ips, env) ==
    LET r == NftRemoveRules(k, env) IN
    IF r.err # Nil THEN r
    ELSE NftApplyRules(r.kern, ips, env)

\* setupRouting: four ip commands, errors ignored (an existing rule or route
\* makes the add fail and stays as it is).
SetupRouting(k) == [k EXCEPT !.routes = k.routes \cup RouteCmds]

\* cleanupRouting: four ip del commands, errors ignored.
CleanupRouting(k) == [k EXCEPT !.routes = k.routes \ RouteCmds]

\* Manager.EnableTransparentProxy: nft -f with "table inet focusd_proxy {...}"
\* adds the table and its chains when missing and appends the rules of every
\* chain; then setupRouting.
EnableTransparentProxy(k, env) ==
    IF env.fault = "nft"
    THEN [kern |-> k, err |-> "applying transparent proxy rules"]
    ELSE [kern |-> SetupRouting([k EXCEPT !.pxTable = TRUE,
                                          !.pxCopies = (IF k.pxTable THEN k.pxCopies ELSE 0) + 1]),
          err |-> Nil]

\* Manager.DisableTransparentProxy: when nft delete table fails the function
\* returns nil at once; cleanupRouting runs only after a successful delete.
DisableTransparentProxy(k, env) ==
    IF env.fault = "nft" \/ ~k.pxTable
    THEN [kern |-> k, err |-> Nil]
    ELSE [kern |-> CleanupRouting([k EXCEPT !.pxTable = FALSE, !.pxCopies = 0]),
          err |-> Nil]

----------------------------------------------------------------------------
(* internal/proxy: instances and their listeners                            *)

\* proxy.New: no listener yet.
ProxyNew(domains) == [ref |-> "inst", blocked |-> domains, http |-> FALSE, https |-> FALSE]

Listening(p) == p # NoProxy /\ (p.http \/ p.https)

\* TransparentProxy.Start: bind fails on a port another listener holds.
ProxyStart(p, busyHTTP, busyHTTPS, env) ==
    IF busyHTTP \/ env.fault = "bindHTTP"
    THEN [proxy |-> p, err |-> "creating HTTP listener"]
    ELSE IF busyHTTPS \/ env.fault = "bindHTTPS"
    THEN [proxy |-> [p EXCEPT !.http = FALSE], err |-> "creating HTTPS listener"]
    ELSE [proxy |-> [p EXCEPT !.http = TRUE, !.https = TRUE], err |-> Nil]

\* TransparentProxy.Stop: closes the listeners it has.
ProxyStop(p) == [p EXCEPT !.http = FALSE, !.https = FALSE]

----------------------------------------------------------------------------
(* internal/proxy: the connection handlers                                  *)

ProxyMark == 50
BufSize == 16384    \* buf := make([]byte, 16384)

LF == 10
CR == 13
Colon == 58
Dot == 46
CRLF == <<CR, LF>>
HostColon == <<104, 111, 115, 116, 58>>    \* "host:"

\* strings.ToLower on ASCII
ToLower(str) == [i \in 1..Len(str) |-> IF str[i] >= 65 /\ str[i] <= 90 THEN str[i] + 32 ELSE str[i]]

\* strings.TrimSuffix(str, ".")
TrimDot(str) ==
    IF Len(str) > 0 /\ str[Len(str)] = Dot THEN SubSeq(str, 1, Len(str) - 1) ELSE str

IsSpace(b) == b \in {9, 10, 11, 12, 13, 32}

\* strings.TrimSpace
RECURSIVE TrimSpace(_)
TrimSpace(str) ==
    IF str = <<>> THEN str
    ELSE IF IsSpace(Head(str)) THEN TrimSpace(Tail(str))
    ELSE IF IsSpace(str[Len(str)]) THEN TrimSpace(SubSeq(str, 1, Len(str) - 1))
    ELSE str

\* strings.Index(str, ":"), 1-based; 0 when there is none
Index(str, b) ==
    IF \E i \in 1..Len(str) : str[i] = b
    THEN CHOOSE i \in 1..Len(str) : str[i] = b /\ \A j \in 1..(i - 1) : str[j] # b
    ELSE 0

\* reader.ReadString('\n') on what the client sends from position pos on:
\* the line up to and including the newline, or an error (end of stream or
\* the read deadline) when no newline comes.
ReadString(stream, pos) ==
    LET rest == SubSeq(stream, pos, Len(stream))
        i == Index(rest, LF)
    IN IF i = 0 THEN [line |-> rest, next |-> Len(stream) + 1, err |-> TRUE]
       ELSE [line |-> SubSeq(rest, 1, i), next |-> pos + i, err |-> FALSE]

\* The header loop of handleHTTP, lines 205-215: the value of host when the
\* loop ends.
RECURSIVE HeaderLoop(_, _)
HeaderLoop(stream, pos) ==
    LET r == ReadString(stream, pos) IN
    IF r.err \/ r.line = CRLF \/ r.line = <<LF>> THEN <<>>
    ELSE IF HasPrefix(ToLower(r.line), HostColon)
    THEN TrimSpace(SubSeq(r.line, Index(r.line, Colon) + 1, Len(r.line)))
    ELSE HeaderLoop(stream, r.next)

\* Variants of isBlocked: one that matches a suffix without the dot before
\* it, one without the www. rule, one that consults the first domain only.
RECURSIVE isBlockedNoDot(_, _)
isBlockedNoDot(host, blockedDomains) ==
    IF blockedDomains = <<>> THEN FALSE
    ELSE
    LET h == ToLower(TrimDot(host))
        blocked == ToLower(TrimDot(Head(blockedDomains)))
        bareBlocked == SubSeq(blocked, Len(Www) + 1, Len(blocked))
    IN
    IF h = blocked \/ HasSuffix(h, blocked) THEN TRUE
    ELSE IF HasPrefix(blocked, Www)
            /\ (h = bareBlocked \/ HasSuffix(h, <<Dot>> \o bareBlocked))
    THEN TRUE
    ELSE isBlockedNoDot(host, Tail(blockedDomains))

RECURSIVE isBlockedNoBare(_, _)
isBlockedNoBare(host, blockedDomains) ==
    IF blockedDomains = <<>> THEN FALSE
    ELSE
    LET h == ToLower(TrimDot(host))
        blocked == ToLower(TrimDot(Head(blockedDomains)))
    IN
    IF h = blocked \/ HasSuffix(h, <<Dot>> \o blocked) THEN TRUE
    ELSE isBlockedNoBare(host, Tail(blockedDomains))

isBlockedFirstOnly(host, blockedDomains) ==
    IF blockedDomains = <<>> THEN FALSE
    ELSE
    LET h == ToLower(TrimDot(host))
        blocked == ToLower(TrimDot(Head(blockedDomains)))
        bareBlocked == SubSeq(blocked, Len(Www) + 1, Len(blocked))
    IN
    \/ h = blocked \/ HasSuffix(h, <<Dot>> \o blocked)
    \/ /\ HasPrefix(blocked, Www)
       /\ (h = bareBlocked \/ HasSuffix(h, <<Dot>> \o bareBlocked))

\* isBlocked, lines 349-370
RECURSIVE isBlocked(_, _)
isBlocked(host, blockedDomains) ==
    IF blockedDomains = <<>> THEN FALSE
    ELSE
    LET h == ToLower(TrimDot(host))
        blocked == ToLower(TrimDot(Head(blockedDomains)))
        bareBlocked == SubSeq(blocked, Len(Www) + 1, Len(blocked))
    IN
    IF h = blocked \/ HasSuffix(h, <<Dot>> \o blocked) THEN TRUE
    ELSE IF HasPrefix(blocked, Www)
            /\ (h = bareBlocked \/ HasSuffix(h, <<Dot>> \o bareBlocked))
    THEN TRUE
    ELSE isBlocked(host, Tail(blockedDomains))

\* What a handler decides once it has read: "return" and "no host" (the
\* request line could not be read, no Host value was found: the connection
\* is closed with nothing sent), "alert", "403", "forward", or "panic".
Verdict(kind, host, initial) == [kind |-> kind, host |-> host, initial |-> initial]

\* The position behind the last line the header loop of handleHTTP read.
RECURSIVE HeaderLoopEnd(_, _)
HeaderLoopEnd(stream, pos) ==
    LET r == ReadString(stream, pos) IN
    IF r.err \/ r.line = CRLF \/ r.line = <<LF>> THEN r.next
    ELSE IF HasPrefix(ToLower(r.line), HostColon) THEN r.next
    ELSE HeaderLoopEnd(stream, r.next)

\* The bytes handleHTTP's ReadString calls have returned when it reaches its
\* verdict: ReadString reads on until it finds a newline, whatever the
\* length, or until the stream ends or the deadline passes.
HTTPTaken(stream) ==
    LET first == ReadString(stream, 1) IN
    IF first.err THEN Len(stream) ELSE HeaderLoopEnd(stream, first.next) - 1

\* handleHTTPS, lines 269-291, on clientHello = buf[:n]
HTTPSForwardsUnparsed(clientHello, blockedDomains) ==
    LET r == ExtractSNI(clientHello) IN
    IF r.panic THEN Verdict("panic", <<>>, "none")
    ELSE IF r.err # Nil THEN Verdict("forward", <<>>, "clientHello")
    ELSE IF isBlocked(r.host, blockedDomains) THEN Verdict("alert", r.host, "none")
    ELSE Verdict("forward", r.host, "clientHello")

HTTPSVerdict(clientHello, blockedDomains) ==
    LET r == ExtractSNI(clientHello) IN
    IF r.panic THEN Verdict("panic", <<>>, "none")
    ELSE IF r.err # Nil THEN Verdict("alert", <<>>, "none")
    ELSE IF isBlocked(r.host, blockedDomains) THEN Verdict("alert", r.host, "none")
    ELSE Verdict("forward", r.host, "clientHello")

\* handleHTTP, lines 197-244, on the bytes the client sends
HTTPVerdict(stream, blockedDomains) ==
    LET first == ReadString(stream, 1) IN
    IF first.err THEN Verdict("return", <<>>, "none")
    ELSE
    LET value == HeaderLoop(stream, first.next) IN
    IF value = <<>> THEN Verdict("no host", <<>>, "none")
    ELSE
    LET idx == Index(value, Colon)
        host == IF idx # 0 THEN SubSeq(value, 1, idx - 1) ELSE value
    IN
    IF isBlocked(host, blockedDomains) THEN Verdict("403", host, "none")
    ELSE Verdict("forward", host, "requestLine")

----------------------------------------------------------------------------
(* internal/state                                                           *)

stateEnabled == <<101, 110, 97, 98, 108, 101, 100>>          \* "enabled"
stateDisabled == <<100, 105, 115, 97, 98, 108, 101, 100>>    \* "disabled"

\* The state file with the given bytes in it.
StateFile(data) == [exists |-> TRUE, data |-> data]

\* A variant of IsEnabled that compares the bytes as they were read.
IsEnabledUntrimmed(sf, readable) ==
    IF ~sf.exists THEN [enabled |-> TRUE, err |-> Nil]
    ELSE IF ~readable THEN [enabled |-> FALSE, err |-> "reading state file"]
    ELSE [enabled |-> (sf.data = stateEnabled), err |-> Nil]

\* State.IsEnabled: a missing file reads enabled; a read error is an error;
\* otherwise the contents, trimmed, are compared with "enabled".
IsEnabled(sf, readable) ==
    IF ~sf.exists THEN [enabled |-> TRUE, err |-> Nil]
    ELSE IF ~readable THEN [enabled |-> FALSE, err |-> "reading state file"]
    ELSE [enabled |-> (TrimSpace(sf.data) = stateEnabled), err |-> Nil]

\* What State.SetEnabled writes: value + "\n".
StateBytes(enabled) == (IF enabled THEN stateEnabled ELSE stateDisabled) \o <<LF>>

\* State.SetEnabled as far as os.WriteFile got: the file is opened with
\* O_CREATE and O_TRUNC, then the bytes are written into it.
Truncated == StateFile(<<>>)
WrittenUpTo(enabled, k) == StateFile(SubSeq(StateBytes(enabled), 1, k))

----------------------------------------------------------------------------
(* internal/usbkey                                                          *)

\* A variant of Verify that does not look at the key file's digest.
VerifyAnyKey(u) ==
    IF u.hash.kind # "line" THEN "cannot read expected token hash"
    ELSE IF u.globErr \/ u.keys = <<>> THEN "USB key not found"
    ELSE IF ~u.keys[1].openable THEN "error verifying USB key"
    ELSE Nil

\* Verifier.Verify. The hash file is unreadable, has no line ("empty"), has a
\* first line without fields ("blank"), or has a first field; the glob gives
\* the key files, of which the first is hashed.
Verify(u) ==
    IF u.hash.kind # "line" THEN "cannot read expected token hash"
    ELSE
    LET expectedHash == ToLower(u.hash.first) IN
    IF u.globErr \/ u.keys = <<>> THEN "USB key not found"
    ELSE IF ~u.keys[1].openable THEN "error verifying USB key"
    ELSE IF u.keys[1].digest # expectedHash THEN "USB key does not match expected token"
    ELSE Nil

----------------------------------------------------------------------------
(* internal/daemon: the supervisor's handlers, on the record                *)
(* w = [kern, dnsFile, proxy, orphan]                                       *)

\* d.proxy = proxy.New(domains): an instance that still listens and is no
\* longer referenced keeps its ports.
SetProxy(w, p) ==
    [w EXCEPT !.proxy = p,
              !.orphan = IF Listening(w.proxy) THEN w.proxy ELSE w.orphan]

\* A variant of applyRules that keeps the proxy when the interception rules
\* could not be installed.
applyRulesKeepingProxy(w, bl, dns, env) ==
    LET ld == LoadBlocklist(bl)
        none == [ipInstall |-> "skipped", ips |-> {}, domains |-> ld.domains]
    IN
    IF ld.err # Nil THEN [w |-> w, err |-> "loading blocklist"] @@ none
    ELSE
    LET domains == ld.domains
        d == DnsApplyRules(w.dnsFile, domains, env.fault)
    IN
    IF d.err # Nil THEN [w |-> w, err |-> "applying DNS rules"] @@ none
    ELSE
    LET r == Resolve(domains, dns)
        n == IF r.err # Nil THEN [kern |-> w.kern, err |-> r.err]
             ELSE NftApplyRules(w.kern, r.ips, env)
        info == [ipInstall |-> IF n.err = Nil THEN "ok" ELSE "failed",
                 ips |-> r.ips, domains |-> domains]
        w1 == SetProxy([w EXCEPT !.dnsFile = d.file, !.kern = n.kern],
                       ProxyNew(domains))
        st == ProxyStart(w1.proxy, Listening(w1.orphan) /\ w1.orphan.http,
                         Listening(w1.orphan) /\ w1.orphan.https, env)
        w2 == [w1 EXCEPT !.proxy = st.proxy]
    IN
    IF st.err # Nil THEN [w |-> w2, err |-> "starting transparent proxy"] @@ info
    ELSE
    LET e == EnableTransparentProxy(w2.kern, env) IN
    IF e.err # Nil
    THEN [w |-> w2, err |-> "enabling transparent proxy rules"] @@ info
    ELSE [w |-> [w2 EXCEPT !.kern = e.kern], err |-> Nil] @@ info

\* A variant of applyRules that returns the error of the IP-drop install.
applyRulesStrict(w, bl, dns, env) ==
    LET ld == LoadBlocklist(bl)
        none == [ipInstall |-> "skipped", ips |-> {}, domains |-> ld.domains]
    IN
    IF ld.err # Nil THEN [w |-> w, err |-> "loading blocklist"] @@ none
    ELSE
    LET domains == ld.domains
        d == DnsApplyRules(w.dnsFile, domains, env.fault)
    IN
    IF d.err # Nil THEN [w |-> w, err |-> "applying DNS rules"] @@ none
    ELSE
    LET r == Resolve(domains, dns)
        n == IF r.err # Nil THEN [kern |-> w.kern, err |-> r.err]
             ELSE NftApplyRules(w.kern, r.ips, env)
        info == [ipInstall |-> IF n.err = Nil THEN "ok" ELSE "failed",
                 ips |-> r.ips, domains |-> domains]
        w1 == SetProxy([w EXCEPT !.dnsFile = d.file, !.kern = n.kern],
                       ProxyNew(domains))
        st == ProxyStart(w1.proxy, Listening(w1.orphan) /\ w1.orphan.http,
                         Listening(w1.orphan) /\ w1.orphan.https, env)
        w2 == [w1 EXCEPT !.proxy = st.proxy]
    IN
    IF n.err # Nil THEN [w |-> w1, err |-> "applying nftables IP rules"] @@ info
    ELSE IF st.err # Nil THEN [w |-> w2, err |-> "starting transparent proxy"] @@ info
    ELSE
    LET e == EnableTransparentProxy(w2.kern, env) IN
    IF e.err # Nil
    THEN [w |-> [w2 EXCEPT !.proxy = NoProxy], err |-> "enabling transparent proxy rules"] @@ info
    ELSE [w |-> [w2 EXCEPT !.kern = e.kern], err |-> Nil] @@ info

\* Daemon.applyRules
applyRules(w, bl, dns, env) ==
    LET ld == LoadBlocklist(bl)
        none == [ipInstall |-> "skipped", ips |-> {}, domains |-> ld.domains]
    IN
    IF ld.err # Nil THEN [w |-> w, err |-> "loading blocklist"] @@ none
    ELSE
    LET domains == ld.domains
        d == DnsApplyRules(w.dnsFile, domains, env.fault)
    IN
    IF d.err # Nil THEN [w |-> w, err |-> "applying DNS rules"] @@ none
    ELSE
    LET r == Resolve(domains, dns)
        n == IF r.err # Nil THEN [kern |-> w.kern, err |-> r.err]
             ELSE NftApplyRules(w.kern, r.ips, env)
        info == [ipInstall |-> IF n.err = Nil THEN "ok" ELSE "failed",
                 ips |-> r.ips, domains |-> domains]
        w1 == SetProxy([w EXCEPT !.dnsFile = d.file, !.kern = n.kern],
                       ProxyNew(domains))
        st == ProxyStart(w1.proxy, Listening(w1.orphan) /\ w1.orphan.http,
                         Listening(w1.orphan) /\ w1.orphan.https, env)
        w2 == [w1 EXCEPT !.proxy = st.proxy]
    IN
    IF st.err # Nil THEN [w |-> w2, err |-> "starting transparent proxy"] @@ info
    ELSE
    LET e == EnableTransparentProxy(w2.kern, env) IN
    IF e.err # Nil
    THEN [w |-> [w2 EXCEPT !.proxy = NoProxy], err |-> "enabling transparent proxy rules"] @@ info
    ELSE [w |-> [w2 EXCEPT !.kern = e.kern], err |-> Nil] @@ info

\* Daemon.removeRules: every error is logged only.
removeRules(w, env) ==
    LET w1 == IF w.proxy # NoProxy THEN [w EXCEPT !.proxy = NoProxy] ELSE w
        k1 == DisableTransparentProxy(w1.kern, env).kern
        f == DnsRemoveRules(w1.dnsFile).file
        k2 == NftRemoveRules(k1, env).kern
    IN [w |-> [w1 EXCEPT !.kern = k2, !.dnsFile = f], err |-> Nil,
        ipInstall |-> "skipped", ips |-> {}, domains |-> <<>>]

\* A variant of updateRules that runs the whole of applyRules on a tick.
updateRulesReapplying(w, bl, dns, env) == applyRules(w, bl, dns, env)

\* Daemon.updateRules
updateRules(w, bl, dns, env) ==
    LET ld == LoadBlocklist(bl)
        none == [ipInstall |-> "skipped", ips |-> {}, domains |-> ld.domains]
    IN
    IF ld.err # Nil THEN [w |-> w, err |-> "loading blocklist"] @@ none
    ELSE
    LET r == Resolve(ld.domains, dns) IN
    IF r.err # Nil THEN [w |-> w, err |-> "resolving domains"] @@ none
    ELSE
    LET u == NftUpdateRules(w.kern, r.ips, env) IN
    IF u.err # Nil
    THEN [w |-> [w EXCEPT !.kern = u.kern], err |-> "updating nftables rules",
          ipInstall |-> "failed", ips |-> r.ips, domains |-> ld.domains]
    ELSE [w |-> [w EXCEPT !.kern = u.kern], err |-> Nil,
          ipInstall |-> "ok", ips |-> r.ips, domains |-> ld.domains]

\* Daemon.reload
reload(w, sf, bl, dns, env) ==
    LET st == IsEnabled(sf, env.fault # "stateRead") IN
    IF st.err # Nil
    THEN [w |-> w, err |-> "checking state", ipInstall |-> "skipped", ips |-> {},
          domains |-> <<>>, ran |-> "none"]
    ELSE IF st.enabled THEN applyRules(w, bl, dns, env) @@ [ran |-> "apply"]
    ELSE removeRules(w, env) @@ [ran |-> "remove"]

----------------------------------------------------------------------------
(* The daemon: Daemon.Run and its environment                               *)

Signals == {"SIGHUP", "SIGINT", "SIGTERM"}

World == [kern |-> kern, dnsFile |-> dnsFile, proxy |-> proxy, orphan |-> orphan]

\* last: the handler the supervisor ran last (op), what IsEnabled returned
\* to it, whether it returned no error (ok), whether the environment of a
\* start-up or reload was free of faults (clean) and whether the handler
\* installed the IP drops. Every step of the environment resets it.
Idle == [op |-> "none", enabled |-> FALSE, ok |-> TRUE, clean |-> TRUE,
         ipInstall |-> "skipped", err |-> Nil]

Did(op, enabled, fault, r) ==
    [op |-> op, enabled |-> enabled, ok |-> (r.err = Nil), clean |-> (fault = "none"),
     ipInstall |-> r.ipInstall, err |-> r.err]

WithinCaps(w) == w.kern.ipRules <= MaxCopies /\ w.kern.pxCopies <= MaxCopies

SetWorld(w) ==
    /\ kern' = w.kern
    /\ dnsFile' = w.dnsFile
    /\ proxy' = w.proxy
    /\ orphan' = w.orphan

\* The process ends: the operating system closes its listeners; the kernel
\* tables, the routes and the files stay.
ExitWorld(w) == [w EXCEPT !.proxy = NoProxy, !.orphan = NoProxy]

CtlIdle == [op |-> "none", ok |-> TRUE, clean |-> TRUE, ips |-> {},
            domains |-> <<>>, before |-> NoFile]

ProxyIdle ==
    /\ conns = <<>>
    /\ alive = TRUE
    /\ loops = <<>>

Pending == [host |-> <<>>, err |-> "pending", panic |-> FALSE, over |-> FALSE]

SniIdle ==
    /\ sniIn = EmptySlice
    /\ sniOut = Pending

NoVerdict == [done |-> FALSE, blocked |-> FALSE]

MatchIdle ==
    /\ matchIn = [host |-> <<>>, rules |-> <<>>]
    /\ matchOut = NoVerdict

\* Resolve has not been called.
NoAnswer == [done |-> FALSE, ips |-> {}, err |-> Nil]

ResolveIdle ==
    /\ resIn = [domains |-> <<>>, dns |-> <<>>]
    /\ resOut = NoAnswer

\* No command has run and nothing has been read.
NoUsb == [hash |-> [kind |-> "unreadable", first |-> <<>>], globErr |-> FALSE, keys |-> <<>>]
NoCommand == [pc |-> "idle", want |-> FALSE, before |-> Absent, err |-> Nil]
NotRead == [done |-> FALSE, enabled |-> FALSE, err |-> Nil]

CliIdle ==
    /\ usb = NoUsb
    /\ cli = NoCommand
    /\ seen = NotRead

\* No packet has traversed a chain.
NoPacket == [chain |-> "none", p |-> <<>>]
NoRuling == [done |-> FALSE, rule |-> 0, does |-> <<>>]

ChainIdle ==
    /\ pktIn = NoPacket
    /\ pktOut = NoRuling

\* No instance is followed against the clock.
NoInstance == [ctx |-> "none"]

LifeIdle ==
    /\ inst = NoInstance
    /\ flows = <<>>
    /\ now = 0

\* Start has not been called.
NotStarted == [done |-> FALSE, err |-> Nil, http |-> FALSE, https |-> FALSE,
               loops |-> 0, fds |-> 0]

StartIdle ==
    /\ startIn = <<>>
    /\ startOut = NotStarted

UnitIdle ==
    ResolveIdle /\ CliIdle /\ ChainIdle /\ LifeIdle /\ mode = "none" /\ StartIdle

OtherIdle == ProxyIdle /\ SniIdle /\ MatchIdle /\ UnitIdle /\ ctl = CtlIdle

Init ==
    /\ stateFile \in {Absent, StateFile(StateBytes(TRUE)), StateFile(StateBytes(FALSE))}
    /\ blocklist \in Blocklists
    /\ dnsWorld \in DnsWorlds
    /\ kern = NoKernel
    /\ dnsFile = NoFile
    /\ proc = "down"
    /\ proxy = NoProxy
    /\ orphan = NoProxy
    /\ sigChan = <<>>
    /\ last = Idle
    /\ OtherIdle

\* Run, lines 41-71: the initial state check, apply or remove, then the signal
\* channel and the ticker. An error ends the process.
Start ==
    /\ proc # "running"
    /\ \E env \in Envs :
         LET st == IsEnabled(stateFile, env.fault # "stateRead")
             r == IF st.err # Nil
                  THEN [w |-> World, err |-> "checking state", ipInstall |-> "skipped",
                        ips |-> {}, domains |-> <<>>]
                  ELSE IF st.enabled THEN applyRules(World, blocklist, dnsWorld, env)
                  ELSE removeRules(World, env)
         IN /\ WithinCaps(r.w)
            /\ SetWorld(IF r.err # Nil THEN ExitWorld(r.w) ELSE r.w)
            /\ proc' = IF r.err # Nil THEN "exited" ELSE "running"
            /\ last' = Did("start", st.enabled, env.fault, r)
    /\ sigChan' = <<>>
    /\ UNCHANGED <<stateFile, blocklist, dnsWorld, proxyVars, sniVars, matchVars, unitVars, ctl>>

\* signal.Notify on a channel of capacity 1: a signal that finds the channel
\* full is not queued. last.op names the signal delivered.
Signal(sig) ==
    /\ proc = "running"
    /\ sigChan' = IF Len(sigChan) < 1 THEN Append(sigChan, sig) ELSE sigChan
    /\ last' = [Idle EXCEPT !.op = sig]
    /\ UNCHANGED <<stateFile, blocklist, dnsWorld, kern, dnsFile, proc, proxy,
                   orphan, proxyVars, sniVars, matchVars, unitVars, ctl>>

\* Run, lines 76-82: SIGHUP is taken from the channel and reload runs; its
\* error is logged.
Reload ==
    /\ proc = "running"
    /\ sigChan # <<>>
    /\ Head(sigChan) = "SIGHUP"
    /\ \E env \in Envs :
         LET st == IsEnabled(stateFile, env.fault # "stateRead")
             r == reload(World, stateFile, blocklist, dnsWorld, env)
         IN /\ WithinCaps(r.w)
            /\ SetWorld(r.w)
            /\ last' = Did("reload", st.enabled, env.fault, r)
    /\ sigChan' = Tail(sigChan)
    /\ UNCHANGED <<stateFile, blocklist, dnsWorld, proc, proxyVars, sniVars, matchVars, unitVars, ctl>>

\* A variant of the shutdown branch that removes the rules before it returns.
ShutdownRemoving ==
    /\ proc = "running"
    /\ sigChan # <<>>
    /\ Head(sigChan) # "SIGHUP"
    /\ SetWorld(ExitWorld(removeRules(World, [fault |-> "none", wrapped |-> FALSE]).w))
    /\ proc' = "exited"
    /\ sigChan' = <<>>
    /\ last' = [Idle EXCEPT !.op = "shutdown"]
    /\ UNCHANGED <<stateFile, blocklist, dnsWorld, proxyVars, sniVars, matchVars, unitVars, ctl>>

\* Run, lines 83-87: SIGINT or SIGTERM returns from Run.
Shutdown ==
    /\ proc = "running"
    /\ sigChan # <<>>
    /\ Head(sigChan) # "SIGHUP"
    /\ SetWorld(ExitWorld(World))
    /\ proc' = "exited"
    /\ sigChan' = <<>>
    /\ last' = [Idle EXCEPT !.op = "shutdown"]
    /\ UNCHANGED <<stateFile, blocklist, dnsWorld, proxyVars, sniVars, matchVars, unitVars, ctl>>

\* Run, lines 89-102: the refresh tick.
Tick ==
    /\ proc = "running"
    /\ \E env \in TickEnvs :
         LET st == IsEnabled(stateFile, env.fault # "stateRead")
             r == IF st.err # Nil \/ ~st.enabled
                  THEN [w |-> World, err |-> st.err, ipInstall |-> "skipped",
                        ips |-> {}, domains |-> <<>>]
                  ELSE updateRules(World, blocklist, dnsWorld, env)
         IN /\ WithinCaps(r.w)
            /\ SetWorld(r.w)
            /\ last' = [Did("tick", st.enabled, env.fault, r) EXCEPT !.clean = TRUE]
    /\ UNCHANGED <<stateFile, blocklist, dnsWorld, proc, sigChan, proxyVars, sniVars, matchVars, unitVars, ctl>>

\* focusd enable / focusd disable (cmd/focusd) after a successful verification.
SetEnabled(v) ==
    /\ stateFile' = StateFile(StateBytes(v))
    /\ last' = Idle
    /\ UNCHANGED <<blocklist, dnsWorld, kern, dnsFile, proc, proxy, orphan,
                   sigChan, proxyVars, sniVars, matchVars, unitVars, ctl>>

\* The resolution of the names changes.
ChangeResolution(dns) ==
    /\ dnsWorld # dns
    /\ dnsWorld' = dns
    /\ last' = Idle
    /\ UNCHANGED <<stateFile, blocklist, kern, dnsFile, proc, proxy, orphan,
                   sigChan, proxyVars, sniVars, matchVars, unitVars, ctl>>

\* The blocklist file is edited.
EditBlocklist(bl) ==
    /\ blocklist # bl
    /\ blocklist' = bl
    /\ last' = Idle
    /\ UNCHANGED <<stateFile, dnsWorld, kern, dnsFile, proc, proxy, orphan,
                   sigChan, proxyVars, sniVars, matchVars, unitVars, ctl>>

Next ==
    \/ Start
    \/ \E sig \in Signals : Signal(sig)
    \/ Reload
    \/ Shutdown
    \/ Tick
    \/ \E v \in BOOLEAN : SetEnabled(v)
    \/ \E dns \in DnsWorlds : ChangeResolution(dns)
    \/ \E bl \in Blocklists : EditBlocklist(bl)

Spec == Init /\ [][Next]_vars

----------------------------------------------------------------------------
(* The controller on its own: the operations of internal/nft and            *)
(* internal/dns applied in any order to the kernel state and the file.      *)

AddrSets == SUBSET {IpA, IpB, IpC}

CtlEnvs == EnvsOf({"none", "flushAdd", "flushDel", "nft", "dnsWrite"})

CtlDid(op, env, err, ips) ==
    [op |-> op, ok |-> (err = Nil), clean |-> (env.fault = "none"), ips |-> ips,
     domains |-> <<>>, before |-> NoFile]

CtlFrame ==
    UNCHANGED <<stateFile, blocklist, dnsWorld, proc, proxy, orphan, sigChan,
                last, proxyVars, sniVars, matchVars, unitVars>>

InitCtl ==
    /\ stateFile = Absent
    /\ blocklist = <<>>
    /\ dnsWorld = [n \in Names |-> Fail]
    /\ kern = NoKernel
    /\ dnsFile = NoFile
    /\ proc = "down"
    /\ proxy = NoProxy
    /\ orphan = NoProxy
    /\ sigChan = <<>>
    /\ last = Idle
    /\ OtherIdle

\* install_ip_drops(ips): Manager.ApplyRules
InstallIpDrops(ips) ==
    /\ \E env \in CtlEnvs :
         LET r == NftApplyRules(kern, ips, env) IN
         /\ r.kern.ipRules <= MaxCopies
         /\ kern' = r.kern
         /\ ctl' = CtlDid("install_ip_drops", env, r.err, ips)
    /\ UNCHANGED dnsFile
    /\ CtlFrame

\* remove_ip_drops(): Manager.RemoveRules
RemoveIpDrops ==
    /\ \E env \in CtlEnvs :
         LET r == NftRemoveRules(kern, env) IN
         /\ kern' = r.kern
         /\ ctl' = CtlDid("remove_ip_drops", env, r.err, {})
    /\ UNCHANGED dnsFile
    /\ CtlFrame

\* Manager.UpdateRules(ips)
UpdateIpDrops(ips) ==
    /\ \E env \in CtlEnvs :
         LET r == NftUpdateRules(kern, ips, env) IN
         /\ kern' = r.kern
         /\ ctl' = CtlDid("update_ip_drops", env, r.err, ips)
    /\ UNCHANGED dnsFile
    /\ CtlFrame

\* install_interception(): Manager.EnableTransparentProxy
InstallInterception ==
    /\ \E env \in CtlEnvs :
         LET r == EnableTransparentProxy(kern, env) IN
         /\ r.kern.pxCopies <= MaxCopies
         /\ kern' = r.kern
         /\ ctl' = CtlDid("install_interception", env, r.err, {})
    /\ UNCHANGED dnsFile
    /\ CtlFrame

\* remove_interception(): Manager.DisableTransparentProxy
RemoveInterception ==
    /\ \E env \in CtlEnvs :
         LET r == DisableTransparentProxy(kern, env) IN
         /\ kern' = r.kern
         /\ ctl' = CtlDid("remove_interception", env, r.err, {})
    /\ UNCHANGED dnsFile
    /\ CtlFrame

\* dns.Manager.ApplyRules(domains)
WriteSinkhole(domains) ==
    /\ \E env \in CtlEnvs :
         LET r == DnsApplyRules(dnsFile, domains, env.fault) IN
         /\ dnsFile' = r.file
         /\ ctl' = [CtlDid("write_sinkhole", env, r.err, {})
                       EXCEPT !.domains = domains, !.before = dnsFile]
    /\ UNCHANGED kern
    /\ CtlFrame

\* dns.Manager.RemoveRules()
RemoveSinkhole ==
    /\ \E env \in CtlEnvs :
         LET r == DnsRemoveRules(dnsFile) IN
         /\ dnsFile' = r.file
         /\ ctl' = CtlDid("remove_sinkhole", env, r.err, {})
    /\ UNCHANGED kern
    /\ CtlFrame

NextCtl ==
    \/ \E ips \in AddrSets : InstallIpDrops(ips)
    \/ RemoveIpDrops
    \/ \E ips \in AddrSets : UpdateIpDrops(ips)
    \/ InstallInterception
    \/ RemoveInterception
    \/ \E domains \in Blocklists \ {<<>>} : WriteSinkhole(domains)
    \/ RemoveSinkhole

SpecCtl == InitCtl /\ [][NextCtl]_vars

----------------------------------------------------------------------------
(* Properties of the daemon (Spec) and of the controller (SpecCtl)          *)

ListenersOpen == Listening(proxy) \/ Listening(orphan)

SinkholeOf(domains) == File(DnsHeader \o DnsLines(domains, 1))

\* C4: after a reload processed with the state disabled (no fault in its
\* environment), the interception table is absent, no proxy listener is
\* open, the sinkhole file is gone and the IP-drop table is absent.
C4_DisabledReloadRemovesAll ==
    (last.op = "reload" /\ ~last.enabled /\ last.clean)
        => /\ ~kern.pxTable
           /\ ~ListenersOpen
           /\ ~dnsFile.exists
           /\ ~kern.ipTable

\* C5: a reload processed with the state enabled, a blocklist that loads and
\* no fault succeeds and leaves the proxy listening on both ports with the
\* blocklist it loaded, the interception rules and routes installed and the
\* sinkhole file written.
C5_EnabledReloadInstallsAll ==
    (last.op = "reload" /\ last.enabled /\ last.clean /\ blocklist # <<>>)
        => /\ last.ok
           /\ proxy # NoProxy /\ proxy.http /\ proxy.https
           /\ proxy.blocked = blocklist
           /\ kern.pxTable /\ RouteCmds \subseteq kern.routes
           /\ dnsFile = SinkholeOf(blocklist)

\* C6: controller apply never duplicates: at most one IP-drop rule and one
\* copy of the interception rules per chain exist, whatever was installed
\* when install_ip_drops or install_interception ran.
C6_ApplyNeverDuplicates ==
    (ctl.op \in {"install_ip_drops", "install_interception"} /\ ctl.ok)
        => (kern.ipRules <= 1 /\ kern.pxCopies <= 1)

\* C7: the three remove operations succeed also on an absent target and
\* leave no interception table, no policy route, no IP-drop table and no
\* sinkhole file.
C7_RemoveSucceedsAndCompletes ==
    /\ (ctl.op \in {"remove_ip_drops", "remove_interception", "remove_sinkhole"}
            /\ ctl.clean) => ctl.ok
    /\ (ctl.op = "remove_interception" /\ ctl.clean)
            => (~kern.pxTable /\ kern.routes = {})
    /\ (ctl.op = "remove_ip_drops" /\ ctl.clean) => ~kern.ipTable
    /\ (ctl.op = "remove_sinkhole") => ~dnsFile.exists

\* C8: after a successful install_ip_drops(ips) the blocked-IP set holds
\* exactly ips.
C8_InstallReplacesSet ==
    (ctl.op = "install_ip_drops" /\ ctl.ok) => kern.ipSet = ctl.ips

\* C9: after a refresh tick processed successfully in the enabled state the
\* IP-drop set equals the current resolution of the blocklist, in one table
\* with one drop rule.
C9_RefreshConverges ==
    (last.op = "tick" /\ last.enabled /\ last.ok)
        => /\ kern.ipTable
           /\ kern.ipSet = Resolve(blocklist, dnsWorld).ips
           /\ kern.ipRules = 1

\* A tick has replaced the set installed at start-up by the new resolution
\* {IpB, IpC} of the blocklist.
C9_Witness ==
    /\ last.op = "tick" /\ last.enabled /\ last.ok
    /\ kern.ipSet = {IpB, IpC}
    /\ kern.pxTable

\* C10: a refresh tick leaves the sinkhole file, the interception table and
\* the routes, the proxy instances and the state file as they are, and a
\* tick that reads disabled or cannot read the state leaves the whole kernel
\* state as it is.
C10_TickFrame ==
    [][last'.op = "tick" =>
          /\ dnsFile' = dnsFile
          /\ kern'.pxTable = kern.pxTable
          /\ kern'.pxCopies = kern.pxCopies
          /\ kern'.routes = kern.routes
          /\ proxy' = proxy
          /\ orphan' = orphan
          /\ stateFile' = stateFile
          /\ (~last'.enabled => kern' = kern)]_vars

\* A tick in the enabled state has run with the full installation in place,
\* and a tick has read the state as disabled.
C10_Witness ==
    /\ last.op = "tick" /\ last.enabled /\ last.ok
    /\ kern.pxTable /\ dnsFile.exists /\ Listening(proxy)

C10_WitnessDisabled ==
    last.op = "tick" /\ ~last.enabled /\ stateFile = StateFile(StateBytes(FALSE))

----------------------------------------------------------------------------
(* ExtractSNI on its own: every prefix of every record, as a slice of its   *)
(* own length and as the front of a larger buffer.                          *)

Spare == 8    \* bytes of capacity behind the slice in the second form

LongLen == 260   \* length of the longest server name

LongHost == [i \in 1..LongLen |-> IF 2 * i <= LongLen THEN 97 ELSE 98]

\* The server names whose records are parsed whole.
RoundTripHosts == {<<97>>, HostD, HostSubA, Www \o HostD, LongHost}

\* Well-formed records carrying the server name h: as the tests build them;
\* with a session id, more cipher suites and other extensions around the
\* server name; and, for a name of one byte-length, as buildSimpleClientHello
\* builds it.
RecordsWith(h) ==
    {WellFormed(0, 2, 1, SniExt(0, Len(h), h)),
     WellFormed(32, 4, 1, OtherExt(23, 0) \o SniExt(0, Len(h), h) \o OtherExt(10, 2))}
    \cup (IF Len(h) < 247 THEN {buildSimpleClientHello(h)} ELSE {})

\* A whole record as a slice of its own length, and as buf[:n] of a buffer
\* with spare capacity behind it.
\* Server name lists of two entries: a name of another type before or behind
\* the host name, two host names, an empty host name before a host name.
Entry(type, name) == [type |-> type, name |-> name]

EntryLists ==
    {<<Entry(1, HostA), Entry(0, HostD)>>,
     <<Entry(0, HostD), Entry(1, HostA)>>,
     <<Entry(0, HostD), Entry(0, HostA)>>,
     <<Entry(0, <<>>), Entry(0, HostD)>>}

RecordOfList(entries) == WellFormed(0, 2, 1, SniExtList(entries))

Whole(r) ==
    LET n == RunsLen(r) IN
    {[runs |-> r, len |-> n, cap |-> n],
     [runs |-> r \o Rep(0, Spare), len |-> n, cap |-> n + Spare]}

SniInputs ==
    UNION {{Exact(r, t) : t \in 0..RunsLen(r)}
           \cup {InBuffer(r, t, t + Spare) : t \in 0..RunsLen(r)} : r \in Records}
    \cup UNION {Whole(r) : r \in UNION {RecordsWith(h) : h \in RoundTripHosts}}
    \cup UNION {Whole(RecordOfList(e)) : e \in EntryLists}

DaemonIdle ==
    /\ stateFile = Absent
    /\ blocklist = <<>>
    /\ dnsWorld = [n \in Names |-> Fail]
    /\ kern = NoKernel
    /\ dnsFile = NoFile
    /\ proc = "down"
    /\ proxy = NoProxy
    /\ orphan = NoProxy
    /\ sigChan = <<>>
    /\ last = Idle

InitSNI ==
    /\ sniIn \in SniInputs
    /\ sniOut = Pending
    /\ DaemonIdle
    /\ ProxyIdle
    /\ MatchIdle
    /\ UnitIdle
    /\ ctl = CtlIdle

Parse ==
    /\ sniOut = Pending
    /\ sniOut' = ExtractSNI(sniIn)
    /\ UNCHANGED <<sniIn, daemonVars, proxyVars, matchVars, unitVars, ctl>>

NextSNI == Parse

SpecSNI == InitSNI /\ [][NextSNI]_vars

SniErrors == {ErrNotHandshake, ErrNotClientHello, ErrNoSNI, ErrInvalidData}

\* C2: ExtractSNI ends with a hostname or one of its four errors and reads no
\* index at or beyond the end of its input.
C2_ExtractStaysInBounds ==
    sniOut # Pending =>
        /\ ~sniOut.panic
        /\ ~sniOut.over
        /\ \/ (sniOut.err = Nil /\ sniOut.host # <<>>)
           \/ (sniOut.err \in SniErrors /\ sniOut.host = <<>>)

----------------------------------------------------------------------------
(* A started proxy instance serving connections: the accept loops and one   *)
(* handler per accepted connection.                                         *)

MaxConns == 2    \* connections accepted in one behaviour

HostB == <<98>>    \* "b"

\* What clients of the HTTPS listener send: a server name that is blocked,
\* a subdomain of it, one blocked only through the www. rule, one that is
\* not blocked; no extensions; no server name; another content type; another
\* handshake type; and a record that fills the buffer and declares four
\* bytes of extensions it does not carry.
Hellos ==
    {WellFormed(0, 2, 1, SniExt(0, Len(h), h)) : h \in {HostA, HostSubA, HostB, HostD}}
    \cup {WellFormed(0, 2, 1, <<>>),
          WellFormed(0, 2, 1, OtherExt(10, 2)),
          Hello(23, 45, 1, 0, 2, 1, 0, <<>>),
          Hello(22, 45, 2, 0, 2, 1, 0, <<>>),
          Hello(22, BufSize - 5, 1, 0, BufSize - 50, 1, 4, <<>>)}

\* The byte counts one Read may return of a record the client sends.
ReadSizes(r) ==
    {n \in {1, 5, 44, RunsLen(r) - 1, RunsLen(r)} : n >= 1 /\ n <= BufSize}

RequestLine == <<71, 32, 47, 13, 10>>                  \* "G /\r\n"
HostHeader(v) == <<72, 111, 115, 116, 58, 32>> \o v \o CRLF    \* "Host: v\r\n"
OtherHeader == <<88, 58, 121, 13, 10>>                 \* "X:y\r\n"
Port80 == <<58, 56, 48>>                               \* ":80"

Prefixes(str) == {SubSeq(str, 1, t) : t \in 0..Len(str)}

\* One byte more than 16 KiB with no newline in it.
Flood == [i \in 1..(BufSize + 1) |-> 97]

\* What clients of the HTTP listener send before they stop sending: every
\* prefix of a request for a blocked host and of one for another host with a
\* port behind a further header; and requests without a Host header, with
\* other spellings of the header, and with a Host value that is only a port.
Requests ==
    Prefixes(RequestLine \o HostHeader(HostA) \o CRLF)
    \cup Prefixes(RequestLine \o OtherHeader \o HostHeader(HostD \o Port80) \o CRLF)
    \cup {RequestLine \o CRLF,
          RequestLine \o OtherHeader \o CRLF \o HostHeader(HostD),
          RequestLine \o <<104, 79, 83, 116, 58>> \o HostB \o <<LF>>,
          RequestLine \o HostHeader(<<88, 46, 65, 46, 67, 46>>),
          RequestLine \o HostHeader(Port80),
          Flood, Flood \o CRLF \o HostHeader(HostD) \o CRLF}

Free ==
    [port |-> "none", pc |-> "free", buf |-> EmptySlice, request |-> <<>>,
     host |-> <<>>, upstream |-> "none", reply |-> "none", replayed |-> "none",
     why |-> "none", sockopt |-> "none", mark |-> 0, dialled |-> FALSE,
     taken |-> 0]

Handler(port) == [Free EXCEPT !.port = port, !.pc = "accepted"]

\* The handler returned: the deferred Close ran and its locals are gone.
Returned(conn, why, reply) ==
    [Free EXCEPT !.port = conn.port, !.pc = "done", !.why = why, !.reply = reply,
                 !.upstream = IF conn.upstream = "none" THEN "none" ELSE "closed",
                 !.buf = IF conn.upstream = "none" THEN EmptySlice ELSE conn.buf,
                 !.request = IF conn.upstream = "none" THEN <<>> ELSE conn.request,
                 !.host = conn.host, !.replayed = conn.replayed,
                 !.sockopt = conn.sockopt, !.mark = conn.mark,
                 !.dialled = conn.dialled, !.taken = conn.taken]

Started(domains) == [ProxyNew(domains) EXCEPT !.http = TRUE, !.https = TRUE]

InitProxy ==
    /\ proxy \in {Started(<<DomA>>), Started(<<DomB, DomA>>)}
    /\ conns = [c \in 1..MaxConns |-> Free]
    /\ alive = TRUE
    /\ loops = [http |-> "accepting", https |-> "accepting"]
    /\ stateFile = Absent
    /\ blocklist = <<>>
    /\ dnsWorld = [n \in Names |-> Fail]
    /\ kern = NoKernel
    /\ dnsFile = NoFile
    /\ proc = "running"
    /\ orphan = NoProxy
    /\ sigChan = <<>>
    /\ last = Idle
    /\ SniIdle
    /\ MatchIdle
    /\ UnitIdle
    /\ ctl = CtlIdle

ProxyFrame ==
    UNCHANGED <<stateFile, blocklist, dnsWorld, kern, dnsFile, orphan, sigChan,
                last, sniVars, matchVars, unitVars, ctl>>

\* acceptLoop, lines 163-178: Accept returned a connection; its handler runs
\* in a goroutine of its own.
Accept(c, port) ==
    /\ alive
    /\ loops[port] = "accepting"
    /\ conns[c].pc = "free"
    /\ conns' = [conns EXCEPT ![c] = Handler(port)]
    /\ UNCHANGED <<alive, loops, proxy, proc>>
    /\ ProxyFrame

\* handleHTTP 187-194, handleHTTPS 252-259: the read deadline is set and the
\* original destination is looked up.
GetOriginalDst(c) ==
    /\ alive
    /\ conns[c].pc = "accepted"
    /\ \E ok \in BOOLEAN :
         conns' = [conns EXCEPT ![c] =
                      IF ok THEN [@ EXCEPT !.pc = "reading"]
                      ELSE Returned(@, "original destination", "none")]
    /\ UNCHANGED <<alive, loops, proxy, proc>>
    /\ ProxyFrame

\* A panic in a goroutine that nothing recovers ends the process: the accept
\* loops, every handler and the supervisor with them.
Crashed ==
    [c \in DOMAIN conns |->
        IF conns[c].pc \in {"free", "done"} THEN conns[c]
        ELSE [conns[c] EXCEPT !.pc = "killed",
                              !.upstream = IF @ = "open" THEN "closed" ELSE @]]

\* handleHTTPS, lines 262-291: one Read into the 16 KiB buffer, then
\* ExtractSNI and isBlocked on what it returned.
ReadClientHello(c) ==
    /\ alive
    /\ conns[c].pc = "reading"
    /\ conns[c].port = "https"
    /\ \E r \in Hellos, err \in BOOLEAN :
         \E n \in ReadSizes(r) :
           LET clientHello == InBuffer(r, n, BufSize)
               v == HTTPSVerdict(clientHello, proxy.blocked)
           IN
           IF err
           THEN /\ conns' = [conns EXCEPT ![c] = Returned(@, "read", "none")]
                /\ UNCHANGED <<alive, loops, proxy, proc>>
           ELSE IF v.kind = "panic"
           THEN /\ conns' = [Crashed EXCEPT ![c].pc = "killed"]
                /\ alive' = FALSE
                /\ loops' = [http |-> "exited", https |-> "exited"]
                /\ proxy' = ProxyStop(proxy)
                /\ proc' = "exited"
           ELSE IF v.kind = "alert"
           THEN /\ conns' = [conns EXCEPT ![c] =
                                Returned([@ EXCEPT !.taken = n], "alert", "alert")]
                /\ UNCHANGED <<alive, loops, proxy, proc>>
           ELSE /\ conns' = [conns EXCEPT ![c] =
                                [@ EXCEPT !.pc = "dialing", !.buf = clientHello,
                                          !.host = v.host, !.replayed = v.initial,
                                          !.taken = n]]
                /\ UNCHANGED <<alive, loops, proxy, proc>>
    /\ ProxyFrame

\* handleHTTP, lines 197-244: the request line and the headers up to the
\* first Host header are read, then isBlocked.
ReadRequest(c) ==
    /\ alive
    /\ conns[c].pc = "reading"
    /\ conns[c].port = "http"
    /\ \E stream \in Requests :
         LET v == HTTPVerdict(stream, proxy.blocked)
             cn == [conns[c] EXCEPT !.taken = HTTPTaken(stream)]
         IN
         conns' = [conns EXCEPT ![c] =
                      IF v.kind \in {"return", "no host"} THEN Returned(cn, v.kind, "none")
                      ELSE IF v.kind = "403" THEN Returned(cn, "403", "403")
                      ELSE [cn EXCEPT !.pc = "dialing", !.request = stream,
                                      !.host = v.host, !.replayed = v.initial]]
    /\ UNCHANGED <<alive, loops, proxy, proc>>
    /\ ProxyFrame

\* A variant of DialUpstream that goes on to connect when the mark could not
\* be set.
DialUpstreamUnmarked(controlErr, sockErr, connectOk) ==
    [sockopt |-> IF controlErr THEN "none" ELSE IF sockErr THEN "failed" ELSE "ok",
     mark |-> IF controlErr \/ sockErr THEN 0 ELSE ProxyMark,
     dialled |-> TRUE,
     err |-> ~connectOk]

\* dialer.Dial of forwardConnection, lines 297-317: the socket is created,
\* the Control callback sets SO_MARK on it, and only when the callback
\* returned nil is the connect issued.
DialUpstream(controlErr, sockErr, connectOk) ==
    IF controlErr
    THEN [sockopt |-> "none", mark |-> 0, dialled |-> FALSE, err |-> TRUE]
    ELSE IF sockErr
    THEN [sockopt |-> "failed", mark |-> 0, dialled |-> FALSE, err |-> TRUE]
    ELSE [sockopt |-> "ok", mark |-> ProxyMark, dialled |-> TRUE, err |-> ~connectOk]

\* forwardConnection, lines 297-325: the dial, then the initial data.
Dial(c) ==
    /\ alive
    /\ conns[c].pc = "dialing"
    /\ \E controlErr, sockErr, connectOk, writeOk \in BOOLEAN :
         LET d == DialUpstream(controlErr, sockErr, connectOk)
             cn == [conns[c] EXCEPT !.sockopt = d.sockopt, !.mark = d.mark,
                                    !.dialled = d.dialled, !.replayed =
                                        IF d.err \/ ~writeOk THEN "none" ELSE @]
         IN conns' = [conns EXCEPT ![c] =
                         IF d.err THEN Returned(cn, "dial", "none")
                         ELSE IF writeOk
                         THEN [cn EXCEPT !.pc = "splicing", !.upstream = "open"]
                         ELSE Returned([cn EXCEPT !.upstream = "open"], "write", "none")]
    /\ UNCHANGED <<alive, loops, proxy, proc>>
    /\ ProxyFrame

\* forwardConnection, lines 328-345: both copies ended.
Spliced(c) ==
    /\ alive
    /\ conns[c].pc = "splicing"
    /\ conns' = [conns EXCEPT ![c] = Returned(@, "spliced", "none")]
    /\ UNCHANGED <<alive, loops, proxy, proc>>
    /\ ProxyFrame

NextProxy ==
    \E c \in 1..MaxConns :
        \/ Accept(c, "http")
        \/ Accept(c, "https")
        \/ GetOriginalDst(c)
        \/ ReadClientHello(c)
        \/ ReadRequest(c)
        \/ Dial(c)
        \/ Spliced(c)

SpecProxy == InitProxy /\ [][NextProxy]_vars

\* The hostname handleHTTP takes from what the client sent: the value of the
\* first Host header, without a port; <<>> when the request line or the
\* header did not arrive.
HostOfRequest(stream) ==
    LET first == ReadString(stream, 1)
        value == IF first.err THEN <<>> ELSE HeaderLoop(stream, first.next)
        idx == Index(value, Colon)
    IN [found |-> value # <<>>,
        host |-> IF idx # 0 THEN SubSeq(value, 1, idx - 1) ELSE value]

C3_FailureEndsOnlyItsConnection ==
    /\ alive
    /\ \A c \in DOMAIN conns : conns[c].pc # "killed"
    /\ conns # <<>> => loops = [http |-> "accepting", https |-> "accepting"]

----------------------------------------------------------------------------
(* The supervisor's signals and start-up                                    *)

\* C11: the step that handles SIGINT or SIGTERM ends the process and leaves
\* the interception table, the routes, the IP-drop table and set and the
\* sinkhole file as they were.
C11_ShutdownKeepsRules ==
    [][last'.op = "shutdown" =>
          /\ proc' = "exited"
          /\ kern' = kern
          /\ dnsFile' = dnsFile]_vars

\* The daemon has exited on a signal with the full installation in place.
C11_Witness ==
    /\ last.op = "shutdown" /\ proc = "exited"
    /\ kern.pxTable /\ kern.ipTable /\ RouteCmds \subseteq kern.routes
    /\ dnsFile.exists

\* C12: a signal delivered to the running daemon is pending afterwards: a
\* hangup is in the channel, and after an interrupt or terminate an
\* interrupt or terminate is in the channel.
C12_NoSignalLost ==
    /\ last.op = "SIGHUP" => \E i \in DOMAIN sigChan : sigChan[i] = "SIGHUP"
    /\ last.op \in {"SIGINT", "SIGTERM"}
           => \E i \in DOMAIN sigChan : sigChan[i] \in {"SIGINT", "SIGTERM"}

----------------------------------------------------------------------------
(* Start-up over what a prior process left behind                           *)

\* The kernel state a prior process may have left: each of the IP-drop
\* table, the interception table and the four routing entries present or
\* absent.
Residues ==
    {[ipTable |-> ip, ipSet |-> IF ip THEN {IpA} ELSE {}, ipRules |-> IF ip THEN 1 ELSE 0,
      pxTable |-> px, pxCopies |-> IF px THEN 1 ELSE 0, routes |-> rt] :
        ip \in BOOLEAN, px \in BOOLEAN, rt \in SUBSET RouteCmds}

InitRestart ==
    /\ stateFile \in {Absent, StateFile(StateBytes(TRUE)), StateFile(StateBytes(FALSE))}
    /\ blocklist \in Blocklists
    /\ dnsWorld \in DnsWorlds
    /\ kern \in Residues
    /\ dnsFile \in {NoFile, SinkholeOf(<<DomA>>)}
    /\ proc = "down"
    /\ proxy = NoProxy
    /\ orphan = NoProxy
    /\ sigChan = <<>>
    /\ last = Idle
    /\ OtherIdle

NextRestart == Start

SpecRestart == InitRestart /\ [][NextRestart]_vars

\* C13: once a start-up with the state disabled has completed, nothing of a
\* prior installation is left: no interception table, no routing entry, no
\* IP-drop table and no sinkhole file.
C13_DisabledStartLeavesNothing ==
    (last.op = "start" /\ ~last.enabled /\ last.clean /\ proc = "running")
        => /\ ~kern.pxTable
           /\ kern.routes = {}
           /\ ~kern.ipTable
           /\ ~dnsFile.exists

\* C14: a start-up or reload in the enabled state with an empty blocklist
\* and no fault succeeds, with the proxy listening on both ports and the
\* interception table installed.
C14_EmptyBlocklistAccepted ==
    (last.op \in {"start", "reload"} /\ last.enabled /\ last.clean /\ blocklist = <<>>)
        => /\ last.ok
           /\ proxy # NoProxy /\ proxy.http /\ proxy.https
           /\ proxy.blocked = <<>>
           /\ kern.pxTable

----------------------------------------------------------------------------
(* isBlocked on its own: hostnames against lists of blocked domains         *)

MaxHostLen == 3    \* every hostname up to this length over Alphabet is tried
MaxRules == 2      \* lists of up to this many domains are tried

Alphabet == {97, 65, 46, 119}    \* 'a', 'A', '.', 'w'

RECURSIVE StringsUpTo(_)
StringsUpTo(n) ==
    IF n = 0 THEN {<<>>}
    ELSE LET S == StringsUpTo(n - 1) IN S \cup {Append(str, ch) : str \in S, ch \in Alphabet}

WwwA == Www \o <<97>>    \* "www.a"

MatchHosts ==
    StringsUpTo(MaxHostLen)
    \cup {WwwA, <<97, 46>> \o WwwA, <<87, 87, 87, 46, 65, 46>>, <<97>> \o WwwA,
          <<119, 46, 97, 46, 97>>, <<119, 119, 119>>}

\* One domain: every string of up to two characters, and www. domains in
\* several spellings.
SingleRules ==
    StringsUpTo(2)
    \cup {WwwA, <<87, 119, 87, 46, 65, 46>>, Www, Www \o <<46>>, <<97, 46, 97>>,
          Www \o <<97, 46, 97>>}

ListRules == {<<97>>, WwwA, <<97, 46, 97>>, <<65, 46>>}

RECURSIVE ListsUpTo(_)
ListsUpTo(n) ==
    IF n = 0 THEN {<<>>}
    ELSE LET S == ListsUpTo(n - 1) IN S \cup {Append(l, r) : l \in S, r \in ListRules}

MatchInputs ==
    {[host |-> h, rules |-> <<r>>] : h \in MatchHosts, r \in SingleRules}
    \cup {[host |-> h, rules |-> l] : h \in MatchHosts, l \in ListsUpTo(MaxRules)}

InitMatch ==
    /\ matchIn \in MatchInputs
    /\ matchOut = NoVerdict
    /\ DaemonIdle
    /\ ProxyIdle
    /\ SniIdle
    /\ UnitIdle
    /\ ctl = CtlIdle

Match ==
    /\ ~matchOut.done
    /\ matchOut' = [done |-> TRUE, blocked |-> isBlocked(matchIn.host, matchIn.rules)]
    /\ UNCHANGED <<matchIn, daemonVars, proxyVars, sniVars, unitVars, ctl>>

NextMatch == Match

SpecMatch == InitMatch /\ [][NextMatch]_vars

\* Lowercased, one trailing dot removed.
Norm(str) == ToLower(TrimDot(str))

\* h equals r or ends with "." followed by r.
EqualOrSubdomain(h, r) == h = r \/ HasSuffix(h, <<Dot>> \o r)

OneRule == matchOut.done /\ Len(matchIn.rules) = 1

\* C15 as stated: for every rule r, h is blocked by {r} exactly when h
\* equals r or ends with "." followed by r, both normalised.
C15_SingleRuleAnyRule ==
    OneRule =>
        (matchOut.blocked
            <=> EqualOrSubdomain(Norm(matchIn.host), Norm(matchIn.rules[1])))

\* C15, amended: the equivalence holds for every rule that, normalised,
\* does not begin with "www.".
C15_SingleRuleWithoutWww ==
    (OneRule /\ ~HasPrefix(Norm(matchIn.rules[1]), Www)) =>
        (matchOut.blocked
            <=> EqualOrSubdomain(Norm(matchIn.host), Norm(matchIn.rules[1])))

\* "A.a" is blocked by the rule "a.".
C15_Witness ==
    /\ OneRule /\ matchOut.blocked
    /\ matchIn.rules = <<<<97, 46>>>>
    /\ matchIn.host = <<65, 46, 97>>

\* C16: for one rule r, normalised, h is blocked exactly when it equals or
\* is a subdomain of r, or r begins with "www." and h equals or is a
\* subdomain of r without that prefix.
C16_WwwRuleAddsBareForm ==
    OneRule =>
        LET r == Norm(matchIn.rules[1])
            h == Norm(matchIn.host)
        IN matchOut.blocked
              <=> \/ EqualOrSubdomain(h, r)
                  \/ /\ HasPrefix(r, Www)
                     /\ EqualOrSubdomain(h, SubSeq(r, 5, Len(r)))

\* "a.a" is blocked by the rule "www.a".
C16_Witness ==
    /\ OneRule /\ matchOut.blocked
    /\ matchIn.rules = <<WwwA>>
    /\ matchIn.host = <<97, 46, 97>>

\* The domains of a list, as a set.
RuleSet(l) == {l[i] : i \in DOMAIN l}

\* C17: the verdict is the same for every list with the same set of
\* domains (any order, any repetition), and a hostname blocked by a list is
\* blocked by every list that holds one domain more.
C17_VerdictDependsOnRuleSet ==
    matchOut.done =>
        /\ \A l \in ListsUpTo(MaxRules + 1) :
               RuleSet(l) = RuleSet(matchIn.rules)
                   => isBlocked(matchIn.host, l) = matchOut.blocked
        /\ matchOut.blocked =>
               \A r \in ListRules :
                   /\ isBlocked(matchIn.host, <<r>> \o matchIn.rules)
                   /\ isBlocked(matchIn.host, Append(matchIn.rules, r))

\* "w.a" is blocked by the list <<"a.a", "a">> through its second domain
\* only.
C17_Witness ==
    /\ matchOut.done /\ matchOut.blocked
    /\ matchIn.rules = <<<<97, 46, 97>>, <<97>>>>
    /\ matchIn.host = <<119, 46, 97>>
    /\ ~isBlocked(matchIn.host, <<<<97, 46, 97>>>>)

----------------------------------------------------------------------------
(* ExtractSNI: what it returns                                              *)

\* C18: from a well-formed record that carries the non-empty server name h,
\* ExtractSNI returns h and no error; from an input of fewer than 5 bytes or
\* whose first byte is not 0x16 it returns an error and no hostname.
C18_ExtractRoundTrip ==
    sniOut # Pending =>
        /\ \A h \in RoundTripHosts :
               (\E r \in RecordsWith(h) : sniIn \in Whole(r))
                   => (sniOut.err = Nil /\ sniOut.host = h)
        /\ (sniIn.len < 5 \/ At(sniIn, 0) # 22)
               => (sniOut.err \in SniErrors /\ sniOut.host = <<>>)

\* The longest server name has come back from a record with other
\* extensions around it.
C18_Witness ==
    /\ sniOut # Pending
    /\ sniOut.err = Nil
    /\ sniOut.host = LongHost
    /\ sniIn.len > LongLen + 32

----------------------------------------------------------------------------
(* The handlers: what the client is sent and what the upstream is sent      *)

\* C19: a connection that ended because its hostname is blocked or because
\* no hostname was found in what it sent was answered with the TLS alert on
\* the HTTPS listener and with the 403 response on the HTTP listener.
C19_BlockedFlowGetsCloser ==
    \A c \in DOMAIN conns :
        (conns[c].pc = "done" /\ conns[c].why \in {"alert", "403", "no host"})
            => conns[c].reply = (IF conns[c].port = "https" THEN "alert" ELSE "403")

\* forwardConnection's initialData: clientHello in handleHTTPS (line 290),
\* []byte(requestLine) in handleHTTP (line 244).
initialData(conn) ==
    IF conn.replayed = "clientHello" THEN Bytes(conn.buf, 0, conn.buf.len)
    ELSE IF conn.replayed = "requestLine" THEN ReadString(conn.request, 1).line
    ELSE <<>>

\* The bytes a handler took from the client before it dialled: what the one
\* Read returned, or the lines the bufio reader handed out (the reader itself
\* has taken at least these from the socket).
consumed(conn) ==
    IF conn.port = "https" THEN Bytes(conn.buf, 0, conn.buf.len)
    ELSE SubSeq(conn.request, 1,
                HeaderLoopEnd(conn.request, ReadString(conn.request, 1).next) - 1)

\* C20: the first bytes written to the upstream of a forwarded connection
\* are the bytes taken from the client to classify it.
C20_ReplayIsWhatWasConsumed ==
    \A c \in DOMAIN conns :
        conns[c].pc = "splicing" => initialData(conns[c]) = consumed(conns[c])

----------------------------------------------------------------------------
(* forwardConnection: the mark on the upstream socket                       *)

\* C21: a connect to the original destination is issued only on a socket
\* that carries mark 50, and when setting the mark failed no connect is
\* issued and the connection has no upstream.
C21_UpstreamIsMarked ==
    \A c \in DOMAIN conns :
        /\ conns[c].dialled => (conns[c].sockopt = "ok" /\ conns[c].mark = 50)
        /\ conns[c].upstream # "none" => (conns[c].dialled /\ conns[c].mark = 50)
        /\ conns[c].sockopt = "failed"
               => (~conns[c].dialled /\ conns[c].upstream = "none")

\* One connection has a marked upstream and another ended because the mark
\* could not be set.
C21_Witness ==
    \E c, d \in DOMAIN conns :
        /\ conns[c].upstream = "open" /\ conns[c].mark = 50
        /\ conns[d].pc = "done" /\ conns[d].sockopt = "failed" /\ conns[d].why = "dial"

----------------------------------------------------------------------------
(* Resolver.Resolve alone                                                   *)

MaxResolved == 2    \* domains in one call of Resolve

ResolveRules == {DomA, DomB, HostD}

\* The names Resolve can query for these domains.
ResolveNames == ResolveRules \cup {Www \o DomA, Www \o HostD}

\* net.LookupIP: an error, or one or more addresses.
Answers == {Fail} \cup {Addrs(S) : S \in (SUBSET {IpA, IpB}) \ {{}}}

RECURSIVE DomainLists(_)
DomainLists(n) ==
    IF n = 0 THEN {<<>>}
    ELSE LET S == DomainLists(n - 1) IN
         S \cup {Append(l, r) : l \in S, r \in ResolveRules}

InitResolve ==
    /\ resIn \in {[domains |-> l, dns |-> w] :
                     l \in DomainLists(MaxResolved), w \in [ResolveNames -> Answers]}
    /\ resOut = NoAnswer
    /\ DaemonIdle
    /\ ProxyIdle
    /\ SniIdle
    /\ MatchIdle
    /\ CliIdle
    /\ ChainIdle
    /\ LifeIdle
    /\ mode = "none"
    /\ StartIdle
    /\ ctl = CtlIdle

CallResolve ==
    /\ ~resOut.done
    /\ resOut' = LET r == Resolve(resIn.domains, resIn.dns)
                 IN [done |-> TRUE, ips |-> r.ips, err |-> r.err]
    /\ UNCHANGED <<resIn, daemonVars, proxyVars, sniVars, matchVars, cliVars,
                   chainVars, lifeVars, mode, startVars, ctl>>

NextResolve == CallResolve

SpecResolve == InitResolve /\ [][NextResolve]_vars

\* The addresses a name contributes: none when its lookup fails.
AddressesOf(dns, name) == IF dns[name].ok THEN dns[name].ips ELSE {}

\* C22: Resolve returns no error and exactly the addresses of every domain
\* and, for a domain without the www. prefix, of its www. name; a name whose
\* lookup fails contributes nothing and keeps no other name, the www. name of
\* the same domain included, from being looked up.
C22_ResolveIsUnion ==
    resOut.done =>
        /\ resOut.err = Nil
        /\ resOut.ips =
             UNION {AddressesOf(resIn.dns, resIn.domains[i])
                    \cup (IF HasPrefix(resIn.domains[i], Www) THEN {}
                          ELSE AddressesOf(resIn.dns, Www \o resIn.domains[i]))
                    : i \in DOMAIN resIn.domains}

----------------------------------------------------------------------------
(* focusd enable / focusd disable, and the processes that read the state    *)

\* Digests and the first field of the token hash file ("H1" is "h1" in
\* capitals).
DigestA == <<104, 49>>
DigestB == <<104, 50>>
DigestACaps == <<72, 49>>

HashFiles ==
    {[kind |-> k, first |-> <<>>] : k \in {"unreadable", "empty", "blank"}}
    \cup {[kind |-> "line", first |-> f] : f \in {DigestA, DigestACaps, DigestB}}

Key(digest) == [openable |-> TRUE, digest |-> digest]
NoKey == [openable |-> FALSE, digest |-> <<>>]

KeyFiles == {<<>>, <<Key(DigestA)>>, <<Key(DigestB)>>, <<Key(DigestB), Key(DigestA)>>, <<NoKey>>}

Usbs ==
    {[hash |-> h, globErr |-> FALSE, keys |-> k] : h \in HashFiles, k \in KeyFiles}
    \cup {[hash |-> h, globErr |-> TRUE, keys |-> <<>>] : h \in HashFiles}

\* The state file as a command finds it: absent, written by an earlier
\* command, or edited by hand.
StateFiles ==
    {Absent, StateFile(StateBytes(TRUE)), StateFile(StateBytes(FALSE)),
     StateFile(stateEnabled), StateFile(<<32>> \o stateEnabled \o <<CR, LF>>),
     StateFile(<<69>> \o Tail(stateEnabled) \o <<LF>>), StateFile(<<>>)}

InitState ==
    /\ stateFile \in StateFiles
    /\ usb \in Usbs
    /\ cli = NoCommand
    /\ seen = NotRead
    /\ blocklist = <<>>
    /\ dnsWorld = [n \in Names |-> Fail]
    /\ kern = NoKernel
    /\ dnsFile = NoFile
    /\ proc = "down"
    /\ proxy = NoProxy
    /\ orphan = NoProxy
    /\ sigChan = <<>>
    /\ last = Idle
    /\ ProxyIdle
    /\ SniIdle
    /\ MatchIdle
    /\ ResolveIdle
    /\ ChainIdle
    /\ LifeIdle
    /\ mode = "none"
    /\ StartIdle
    /\ ctl = CtlIdle

StateFrame ==
    UNCHANGED <<blocklist, dnsWorld, kern, dnsFile, proc, proxy, orphan, sigChan,
                last, proxyVars, sniVars, matchVars, resolveVars, chainVars,
                lifeVars, mode, startVars, usb, ctl>>

Failed(msg) == [cli EXCEPT !.pc = "done", !.err = msg]

\* enableCmd / disableCmd is started.
Begin(b) ==
    /\ cli.pc \in {"idle", "done", "crashed"}
    /\ cli' = [pc |-> "verify", want |-> b, before |-> stateFile, err |-> Nil]
    /\ seen' = NotRead
    /\ UNCHANGED stateFile
    /\ StateFrame

\* main.go 62-65, 84-87: verifier.Verify()
VerifyKey ==
    /\ cli.pc = "verify"
    /\ cli' = IF Verify(usb) # Nil THEN Failed("USB key verification failed")
              ELSE [cli EXCEPT !.pc = "mkdir"]
    /\ seen' = NotRead
    /\ UNCHANGED stateFile
    /\ StateFrame

\* SetEnabled, lines 49-52: os.MkdirAll
MkdirAll ==
    /\ cli.pc = "mkdir"
    /\ \E ok \in BOOLEAN :
         cli' = IF ok THEN [cli EXCEPT !.pc = "open"] ELSE Failed("updating state")
    /\ seen' = NotRead
    /\ UNCHANGED stateFile
    /\ StateFrame

\* SetEnabled, line 59: os.WriteFile opens the file, truncating it
OpenFile ==
    /\ cli.pc = "open"
    /\ \E ok \in BOOLEAN :
         IF ok THEN /\ stateFile' = Truncated
                    /\ cli' = [cli EXCEPT !.pc = "write"]
         ELSE /\ UNCHANGED stateFile
              /\ cli' = Failed("updating state")
    /\ seen' = NotRead
    /\ StateFrame

\* SetEnabled, lines 59-63: os.WriteFile writes the bytes; a failed write
\* leaves what it wrote.
WriteBytes ==
    /\ cli.pc = "write"
    /\ \E k \in 0..Len(StateBytes(cli.want)) :
         /\ stateFile' = WrittenUpTo(cli.want, k)
         /\ cli' = IF k = Len(StateBytes(cli.want)) THEN [cli EXCEPT !.pc = "done"]
                   ELSE Failed("updating state")
    /\ seen' = NotRead
    /\ StateFrame

\* The command's process dies where it is.
Crash ==
    /\ cli.pc \in {"verify", "mkdir", "open", "write"}
    /\ cli' = [cli EXCEPT !.pc = "crashed"]
    /\ seen' = NotRead
    /\ UNCHANGED stateFile
    /\ StateFrame

\* The state file is deleted.
DeleteFile ==
    /\ cli.pc \in {"idle", "done", "crashed"}
    /\ stateFile.exists
    /\ stateFile' = Absent
    /\ cli' = NoCommand
    /\ seen' = NotRead
    /\ StateFrame

\* A process (the daemon, focusd status) calls IsEnabled.
ReadState ==
    /\ ~seen.done
    /\ \E readable \in BOOLEAN :
         LET st == IsEnabled(stateFile, readable)
         IN seen' = [done |-> TRUE, enabled |-> st.enabled, err |-> st.err]
    /\ UNCHANGED <<stateFile, cli>>
    /\ StateFrame

NextState ==
    \/ \E b \in BOOLEAN : Begin(b)
    \/ VerifyKey
    \/ MkdirAll
    \/ OpenFile
    \/ WriteBytes
    \/ Crash
    \/ DeleteFile
    \/ ReadState

SpecState == InitState /\ [][NextState]_vars

\* The last command returned nil and nothing touched the file since.
Succeeded == cli.pc = "done" /\ cli.err = Nil

\* C23: what IsEnabled returns, when the file could be read, after a
\* SetEnabled(b) that succeeded is b, in whichever process reads it; and with
\* no state file it returns enabled and no error.
C23_StateRoundTrip ==
    seen.done =>
        /\ (Succeeded /\ seen.err = Nil) => seen.enabled = cli.want
        /\ ~stateFile.exists => (seen.enabled /\ seen.err = Nil)

\* disabled was written over enabled and read back.
C23_Witness ==
    /\ seen.done /\ seen.err = Nil /\ ~seen.enabled
    /\ Succeeded /\ ~cli.want
    /\ cli.before = StateFile(StateBytes(TRUE))

\* C24: when the command's process died during SetEnabled, what IsEnabled
\* returns afterwards is what it returned before the command or the value
\* that was being written.
C24_InterruptedWriteIsOldOrNew ==
    (seen.done /\ seen.err = Nil /\ cli.pc = "crashed") =>
        seen.enabled \in {IsEnabled(cli.before, TRUE).enabled, cli.want}

\* The verifier's approval, from what it is given: the token hash file has a
\* first field, a key file matches the glob, and the digest of the first one
\* is that field in lower case.
KeyApproved ==
    /\ usb.hash.kind = "line"
    /\ ~usb.globErr
    /\ usb.keys # <<>>
    /\ usb.keys[1].openable
    /\ usb.keys[1].digest = ToLower(usb.hash.first)

\* C25: the command goes on to SetEnabled only with the verifier's approval,
\* and without it the command ends with an error and the state file as it
\* was.
C25_WriteOnlyAfterVerify ==
    /\ cli.pc \in {"mkdir", "open", "write"} => KeyApproved
    /\ (cli.pc \in {"done", "crashed"} /\ ~KeyApproved)
           => (stateFile = cli.before /\ (cli.pc = "done" => cli.err # Nil))

\* A command ended on a failed verification with a state file in place, and
\* (in another run) one wrote with approval.
C25_Witness ==
    /\ cli.pc = "done"
    /\ cli.err = "USB key verification failed"
    /\ usb.hash.kind = "line" /\ usb.keys # <<>> /\ usb.keys[1].openable
    /\ stateFile = StateFile(StateBytes(TRUE))
    /\ ~cli.want

----------------------------------------------------------------------------
(* The sinkhole emitter                                                     *)

\* The lines the claim gives one rule.
RuleLines(rule) ==
    IF HasPrefix(rule, Www) THEN <<[address |-> rule, to |-> "0.0.0.0"]>>
    ELSE <<[address |-> rule, to |-> "0.0.0.0"],
           [address |-> Www \o rule, to |-> "0.0.0.0"]>>

RECURSIVE AllRuleLines(_)
AllRuleLines(rules) ==
    IF rules = <<>> THEN <<>>
    ELSE AllRuleLines(SubSeq(rules, 1, Len(rules) - 1)) \o RuleLines(rules[Len(rules)])

\* C26: an emission that succeeded leaves the file holding the header and
\* the lines of its rules and nothing else, whatever the file held before; so
\* an emission over the file of the same rules leaves it as it was.
C26_EmitReplaces ==
    (ctl.op = "write_sinkhole" /\ ctl.ok) =>
        /\ dnsFile.exists
        /\ Len(dnsFile.lines) = 3 + Len(AllRuleLines(ctl.domains))
        /\ SubSeq(dnsFile.lines, 4, Len(dnsFile.lines)) = AllRuleLines(ctl.domains)
        /\ SubSeq(dnsFile.lines, 1, 3) = DnsHeader
        /\ (ctl.before.exists
            /\ SubSeq(ctl.before.lines, 4, Len(ctl.before.lines)) = AllRuleLines(ctl.domains))
               => dnsFile = ctl.before

\* The same two rules were emitted over their own file.
C26_Witness ==
    /\ ctl.op = "write_sinkhole" /\ ctl.ok
    /\ ctl.domains = <<DomB, DomA>>
    /\ ctl.before.exists
    /\ dnsFile = ctl.before

----------------------------------------------------------------------------
(* applyRules: the proxy and the interception rules                         *)

\* C27: an apply-rules that installed the interception rules did so with
\* both listeners open, and one that failed to install them returned an
\* error and left no listener open and no proxy instance in the supervisor.
C27_InterceptionFailureStopsProxy ==
    last.op \in {"start", "reload"} =>
        /\ (last.enabled /\ last.ok)
               => (proxy # NoProxy /\ proxy.http /\ proxy.https /\ kern.pxTable)
        /\ last.err = "enabling transparent proxy rules"
               => (~last.ok /\ proxy = NoProxy /\ ~ListenersOpen)

\* A reload failed at the interception rules and the daemon runs on.
C27_Witness ==
    /\ last.op = "reload"
    /\ last.err = "enabling transparent proxy rules"
    /\ proc = "running"
    /\ proxy = NoProxy

\* C28: an apply-rules in which a name did not resolve or the IP-drop
\* install failed returns no error of those steps: it fails only where the
\* proxy or the interception rules fail, and otherwise succeeds with the
\* proxy listening and the interception rules installed.
C28_IpDropFailureNotFatal ==
    (/\ last.op \in {"start", "reload"}
     /\ last.enabled
     /\ last.err \notin {"checking state", "loading blocklist", "applying DNS rules"}
     /\ \/ last.ipInstall = "failed"
        \/ \E i \in DOMAIN blocklist : ~dnsWorld[blocklist[i]].ok)
        => /\ last.err \in {Nil, "starting transparent proxy",
                            "enabling transparent proxy rules"}
           /\ last.err = Nil
                  => (proxy # NoProxy /\ proxy.http /\ proxy.https /\ kern.pxTable)

\* A start-up whose IP-drop install failed succeeded.
C28_Witness ==
    /\ last.op = "start"
    /\ last.enabled
    /\ last.ipInstall = "failed"
    /\ last.ok
    /\ proc = "running"
    /\ proxy # NoProxy /\ proxy.http /\ proxy.https
    /\ kern.pxTable

\* A reload in which a name did not resolve succeeded.
C28_WitnessResolution ==
    /\ last.op = "reload"
    /\ last.enabled
    /\ last.ok
    /\ blocklist = <<DomA>>
    /\ ~dnsWorld[DomA].ok
    /\ kern.pxTable

----------------------------------------------------------------------------
(* The refresh tick and the blocklist                                       *)

\* C29: after a refresh tick the IP-drop set comes from the blocklist the
\* sinkhole file and the proxy's matcher were made from, whatever the
\* blocklist file holds by now.
C29_TickKeepsSnapshot ==
    (/\ last.op = "tick" /\ last.enabled /\ last.ok
     /\ proxy # NoProxy
     /\ dnsFile = SinkholeOf(proxy.blocked))
        => kern.ipSet = Resolve(proxy.blocked, dnsWorld).ips

----------------------------------------------------------------------------
(* ExtractSNI: the record length                                            *)

\* C30: a handshake record whose length field declares more bytes than were
\* received is rejected with ErrInvalidData and gives no hostname, whatever
\* the value of the field.
C30_ShortRecordRejected ==
    (/\ sniOut # Pending
     /\ sniIn.len >= 5
     /\ At(sniIn, 0) = 22
     /\ sniIn.len < 5 + Uint16(sniIn, 3))
        => (~sniOut.panic /\ sniOut.err = ErrInvalidData /\ sniOut.host = <<>>)

----------------------------------------------------------------------------
(* ExtractSNI: the server name list                                         *)

\* The name of the first entry of type 0 with a non-empty name.
FirstHostName(entries) ==
    LET hosts == {i \in DOMAIN entries : entries[i].type = 0 /\ entries[i].name # <<>>}
    IN entries[CHOOSE i \in hosts : \A j \in hosts : i <= j].name

\* C31: from a record whose server name list holds an entry of type 0 with a
\* non-empty name, ExtractSNI returns the name of the first such entry,
\* whatever stands before it in the list.
C31_FirstHostNameEntry ==
    sniOut # Pending =>
        \A e \in EntryLists :
            sniIn \in Whole(RecordOfList(e))
                => (sniOut.err = Nil /\ sniOut.host = FirstHostName(e))

----------------------------------------------------------------------------
(* The handlers: how much they read                                         *)

\* C32: no handler has taken more than 16384 bytes from its client when it
\* reaches its verdict.
C32_AtMost16KiBConsumed ==
    \A c \in DOMAIN conns : conns[c].taken <= 16384

----------------------------------------------------------------------------
(* The chains of table inet focusd_proxy                                    *)

\* A rule: what it matches ("any" where it does not look) and its statements.
\* "ip daddr" and "tproxy ip to" apply to IPv4 packets only, the ip6 forms to
\* IPv6 packets only.
Rule(nfproto, daddr, mark, l4, dport, does) ==
    [nfproto |-> nfproto, daddr |-> daddr, mark |-> mark, l4 |-> l4,
     dport |-> dport, does |-> does]

SkipMarked == <<Rule("any", "any", ProxyMark, "any", 0, <<"return">>)>>

SkipLocalAndPrivate ==
    <<Rule("ip", "127.0.0.0/8", 0, "any", 0, <<"return">>),
      Rule("ip6", "::1/128", 0, "any", 0, <<"return">>),
      Rule("ip", "10.0.0.0/8", 0, "any", 0, <<"return">>),
      Rule("ip", "172.16.0.0/12", 0, "any", 0, <<"return">>),
      Rule("ip", "192.168.0.0/16", 0, "any", 0, <<"return">>)>>

\* A rule's mark of 0 stands for "any mark" unless the rule is SkipMarked's.
ChainPrerouting ==
    SkipLocalAndPrivate \o
    <<Rule("ip", "any", 0, "tcp", 80, <<"tproxy", "mark set", "accept">>),
      Rule("ip6", "any", 0, "tcp", 80, <<"tproxy", "mark set", "accept">>),
      Rule("ip", "any", 0, "tcp", 443, <<"tproxy", "mark set", "accept">>),
      Rule("ip6", "any", 0, "tcp", 443, <<"tproxy", "mark set", "accept">>),
      Rule("any", "any", 0, "udp", 443, <<"drop">>)>>

ChainOutput ==
    SkipMarked \o SkipLocalAndPrivate \o
    <<Rule("any", "any", 0, "tcp", 80, <<"mark set", "accept">>),
      Rule("any", "any", 0, "tcp", 443, <<"mark set", "accept">>),
      Rule("any", "any", 0, "udp", 443, <<"drop">>)>>

ChainOutputNat ==
    SkipMarked \o SkipLocalAndPrivate \o
    <<Rule("any", "any", 0, "tcp", 80, <<"redirect">>),
      Rule("any", "any", 0, "tcp", 443, <<"redirect">>)>>

ChainOf(name) ==
    CASE name = "prerouting" -> ChainPrerouting
      [] name = "output" -> ChainOutput
      [] name = "output_nat" -> ChainOutputNat

Matches(r, p) ==
    /\ r.nfproto \in {"any", p.nfproto}
    /\ r.daddr \in {"any", p.daddr}
    /\ r.mark \in {0, p.mark}
    /\ r.l4 \in {"any", p.l4}
    /\ r.dport \in {0, p.dport}

\* Every rule of the three chains ends in a verdict, so the first rule that
\* matches ends the traversal; with none the chain's policy accepts.
Traverse(chain, p) ==
    LET hit == {i \in DOMAIN chain : Matches(chain[i], p)} IN
    IF hit = {} THEN [done |-> TRUE, rule |-> 0, does |-> <<"accept">>]
    ELSE LET i == CHOOSE k \in hit : \A j \in hit : k <= j
         IN [done |-> TRUE, rule |-> i, does |-> chain[i].does]

Packets ==
    {[nfproto |-> f, daddr |-> d, mark |-> m, l4 |-> l, dport |-> t] :
        f \in {"ip", "ip6"},
        d \in {"127.0.0.0/8", "::1/128", "10.0.0.0/8", "172.16.0.0/12",
               "192.168.0.0/16", "elsewhere"},
        m \in {1, ProxyMark, 51},
        l \in {"tcp", "udp"},
        t \in {53, 80, 443}}

InitChains ==
    /\ pktIn \in {[chain |-> n, p |-> p] :
                     n \in {"prerouting", "output", "output_nat"},
                     p \in {q \in Packets : (q.daddr = "::1/128" => q.nfproto = "ip6")
                                            /\ (q.nfproto = "ip6" =>
                                                  q.daddr \in {"::1/128", "elsewhere"})}}
    /\ pktOut = NoRuling
    /\ DaemonIdle
    /\ ProxyIdle
    /\ SniIdle
    /\ MatchIdle
    /\ ResolveIdle
    /\ CliIdle
    /\ LifeIdle
    /\ mode = "none"
    /\ StartIdle
    /\ ctl = CtlIdle

Hook ==
    /\ ~pktOut.done
    /\ pktOut' = Traverse(ChainOf(pktIn.chain), pktIn.p)
    /\ UNCHANGED <<pktIn, daemonVars, proxyVars, sniVars, matchVars, resolveVars,
                   cliVars, lifeVars, mode, startVars, ctl>>

NextChains == Hook

SpecChains == InitChains /\ [][NextChains]_vars

\* C33: in each of the three chains no tproxy, redirect, mark-set or drop
\* statement is applied to a packet that bears mark 50.
C33_MarkedPacketUntouched ==
    (pktOut.done /\ pktIn.p.mark = ProxyMark) =>
        \A i \in DOMAIN pktOut.does :
            pktOut.does[i] \notin {"tproxy", "redirect", "mark set", "drop"}

----------------------------------------------------------------------------
(* One proxy instance against the clock: accept loops, handlers, Stop       *)

ReadTimeout == 30        \* seconds
ForwardTimeout == 300    \* seconds; declared, and used by no statement
StopWait == 10           \* seconds: time.After in Stop
MaxFlows == 2
MaxTime == 40

NoFlow == [pc |-> "free", deadline |-> 0, up |-> "none",
           down |-> "none", sockets |-> "none", sent |-> "none"]

\* What applyRules leaves when it returns nil: Start has bound both ports and
\* started the accept loops, EnableTransparentProxy has installed the rules.
Running ==
    [ctx |-> "live", open |-> [http |-> TRUE, https |-> TRUE],
     loop |-> [http |-> "accepting", https |-> "accepting"],
     stop |-> "none", since |-> 0, at |-> 0, how |-> "none", left |-> {},
     rules |-> TRUE]

InitLife ==
    /\ inst = Running
    /\ flows = [f \in 1..MaxFlows |-> NoFlow]
    /\ now = 0
    /\ DaemonIdle
    /\ ProxyIdle
    /\ SniIdle
    /\ MatchIdle
    /\ ResolveIdle
    /\ CliIdle
    /\ ChainIdle
    /\ mode = "none"
    /\ StartIdle
    /\ ctl = CtlIdle

LifeFrame ==
    UNCHANGED <<daemonVars, proxyVars, sniVars, matchVars, resolveVars, cliVars,
                chainVars, mode, startVars, ctl>>

\* A timer or deadline set for instant t has fired.
Due(t) == now >= t

\* The handlers the wait group still counts.
InFlight == {f \in DOMAIN flows : flows[f].pc \notin {"free", "done"}}

\* A wait group that counts the accept loops only.
WaitGroupOfLoops ==
    Cardinality({port \in {"http", "https"} : inst.loop[port] = "accepting"})

\* p.wg: two for the accept loops, one per handler.
WaitGroup ==
    Cardinality({port \in {"http", "https"} : inst.loop[port] = "accepting"})
    + Cardinality(InFlight)

\* A read on the client socket that the deadline would end.
ReadPending(f) ==
    \/ flows[f].pc = "classifying"
    \/ flows[f].pc = "splicing" /\ flows[f].up = "copying"

\* acceptLoop: Accept returned a connection; the handler starts and sets the
\* read deadline (lines 187, 252).
AcceptReturns(f, port) ==
    /\ inst.open[port]
    /\ inst.loop[port] = "accepting"
    /\ flows[f].pc = "free"
    /\ now + ReadTimeout <= MaxTime
    /\ flows' = [flows EXCEPT ![f] =
                    [NoFlow EXCEPT !.pc = "classifying",
                                   !.deadline = now + ReadTimeout,
                                   !.sockets = "client"]]
    /\ UNCHANGED <<inst, now>>
    /\ LifeFrame

\* acceptLoop: Accept returned an error; the loop returns when the context
\* is done and goes on otherwise.
AcceptFails(port) ==
    /\ ~inst.open[port]
    /\ inst.loop[port] = "accepting"
    /\ inst.ctx = "done"
    /\ inst' = [inst EXCEPT !.loop[port] = "exited"]
    /\ UNCHANGED <<flows, now>>
    /\ LifeFrame

\* The handler's classification read returned what the client sent; the
\* handler rejects, or dials and starts both copies.
Classified(f) ==
    /\ flows[f].pc = "classifying"
    /\ ~Due(flows[f].deadline)
    /\ \E forward \in BOOLEAN :
         flows' = [flows EXCEPT ![f] =
                      IF forward
                      THEN [@ EXCEPT !.pc = "splicing", !.up = "copying",
                                     !.down = "copying", !.sockets = "both"]
                      ELSE [@ EXCEPT !.pc = "done", !.sockets = "closed"]]
    /\ UNCHANGED <<inst, now>>
    /\ LifeFrame

\* The classification read ended at the read deadline.
ReadTimedOut(f) ==
    /\ flows[f].pc = "classifying"
    /\ Due(flows[f].deadline)
    /\ flows' = [flows EXCEPT ![f] = [@ EXCEPT !.pc = "done", !.sockets = "closed"]]
    /\ UNCHANGED <<inst, now>>
    /\ LifeFrame

\* forwardConnection, io.Copy(destConn, clientConn): its read on the client
\* socket runs under the deadline set when the connection was accepted;
\* nothing sets another.
CopyTimedOut(f) ==
    /\ flows[f].pc = "splicing"
    /\ flows[f].up = "copying"
    /\ Due(flows[f].deadline)
    /\ flows' = [flows EXCEPT ![f] = [@ EXCEPT !.up = "timeout"]]
    /\ UNCHANGED <<inst, now>>
    /\ LifeFrame

\* The client sends data on a spliced flow: the copy forwards it while it
\* runs; after the copy ended nothing reads the client socket.
ClientSends(f) ==
    /\ flows[f].pc = "splicing"
    /\ flows[f].up \in {"copying", "timeout"}
    /\ ~(flows[f].up = "copying" /\ Due(flows[f].deadline))
    /\ now < (flows[f].deadline - ReadTimeout) + ForwardTimeout
    /\ flows' = [flows EXCEPT ![f] =
                    [@ EXCEPT !.sent = IF flows[f].up = "copying" THEN "forwarded"
                                       ELSE "not forwarded"]]
    /\ UNCHANGED <<inst, now>>
    /\ LifeFrame

\* The client closes its sending side: the copy reads EOF.
ClientCloses(f) ==
    /\ flows[f].pc = "splicing"
    /\ flows[f].up = "copying"
    /\ flows' = [flows EXCEPT ![f] = [@ EXCEPT !.up = "eof"]]
    /\ UNCHANGED <<inst, now>>
    /\ LifeFrame

\* The upstream closes its sending side: io.Copy(clientConn, destConn), which
\* reads the upstream socket under no deadline, reads EOF.
UpstreamCloses(f) ==
    /\ flows[f].pc = "splicing"
    /\ flows[f].down = "copying"
    /\ flows' = [flows EXCEPT ![f] = [@ EXCEPT !.down = "eof"]]
    /\ UNCHANGED <<inst, now>>
    /\ LifeFrame

\* forwardConnection: wg.Wait() returned; the deferred Close calls run.
HandlerReturns(f) ==
    /\ flows[f].pc = "splicing"
    /\ flows[f].up # "copying"
    /\ flows[f].down # "copying"
    /\ flows' = [flows EXCEPT ![f] = [@ EXCEPT !.pc = "done", !.sockets = "closed"]]
    /\ UNCHANGED <<inst, now>>
    /\ LifeFrame

\* removeRules calls d.proxy.Stop() first. Stop, lines 88-103: cancel, close
\* both listeners, start waiting.
StopCalled ==
    /\ inst.stop = "none"
    /\ now + StopWait <= MaxTime
    /\ inst' = [inst EXCEPT !.ctx = "done", !.open = [http |-> FALSE, https |-> FALSE],
                        !.stop = "waiting", !.since = now]
    /\ UNCHANGED <<flows, now>>
    /\ LifeFrame

StopReturn(how) ==
    [inst EXCEPT !.stop = "returned", !.how = how, !.at = now, !.left = InFlight]

\* Stop, lines 105-106: the wait group reached zero.
StopDone ==
    /\ inst.stop = "waiting"
    /\ WaitGroup = 0
    /\ inst' = StopReturn("clean")
    /\ UNCHANGED <<flows, now>>
    /\ LifeFrame

\* Stop, lines 107-108: time.After fired.
StopTimesOut ==
    /\ inst.stop = "waiting"
    /\ Due(inst.since + StopWait)
    /\ inst' = StopReturn("timeout")
    /\ UNCHANGED <<flows, now>>
    /\ LifeFrame

\* removeRules, after Stop has returned: DisableTransparentProxy.
DisableInterception ==
    /\ inst.stop = "returned"
    /\ inst.rules
    /\ inst' = [inst EXCEPT !.rules = FALSE]
    /\ UNCHANGED <<flows, now>>
    /\ LifeFrame

\* Time passes, and not beyond an instant at which a timer fires before the
\* goroutine that waits for it has run.
TimePasses ==
    /\ now + StopWait <= MaxTime
    /\ ~(inst.stop = "waiting" /\ Due(inst.since + StopWait))
    /\ \A f \in DOMAIN flows : ~(ReadPending(f) /\ Due(flows[f].deadline))
    /\ now' = now + StopWait
    /\ UNCHANGED <<inst, flows>>
    /\ LifeFrame

NextLife ==
    \/ StopCalled
    \/ StopDone
    \/ StopTimesOut
    \/ DisableInterception
    \/ TimePasses
    \/ AcceptFails("http")
    \/ AcceptFails("https")
    \/ \E f \in 1..MaxFlows :
          \/ AcceptReturns(f, "http")
          \/ AcceptReturns(f, "https")
          \/ Classified(f)
          \/ ReadTimedOut(f)
          \/ CopyTimedOut(f)
          \/ ClientSends(f)
          \/ ClientCloses(f)
          \/ UpstreamCloses(f)
          \/ HandlerReturns(f)

SpecLife == InitLife /\ [][NextLife]_vars

\* What the process does by itself is scheduled; what the clients, the
\* upstreams and the caller of Stop do is not.
FairLife ==
    /\ WF_vars(TimePasses)
    /\ WF_vars(StopDone)
    /\ WF_vars(StopTimesOut)
    /\ WF_vars(DisableInterception)
    /\ WF_vars(AcceptFails("http"))
    /\ WF_vars(AcceptFails("https"))
    /\ \A f \in 1..MaxFlows :
          /\ WF_vars(ReadTimedOut(f))
          /\ WF_vars(CopyTimedOut(f))
          /\ WF_vars(HandlerReturns(f))

SpecLifeFair == SpecLife /\ FairLife

\* C34: once Stop has been called both listeners are closed and no further
\* connection is accepted; each accept loop exits; Stop returns, at the
\* latest 10 seconds after it began to wait, and before that only when both
\* accept loops and every handler have finished; its return changes no
\* handler, so those still running go on running.
C34_StopAlwaysReturns ==
    /\ [](inst.stop # "none" => (~inst.open.http /\ ~inst.open.https))
    /\ [][inst.stop # "none" =>
            \A f \in 1..MaxFlows : flows[f].pc = "free" => flows'[f].pc = "free"]_vars
    /\ (inst.stop = "waiting") ~> (inst.stop = "returned")
    /\ (inst.stop = "waiting") ~>
           (inst.loop.http = "exited" /\ inst.loop.https = "exited")
    /\ [](inst.stop = "returned" =>
            /\ inst.at <= inst.since + StopWait
            /\ inst.how = "timeout" => inst.at = inst.since + StopWait
            /\ inst.how = "clean" =>
                  /\ inst.left = {}
                  /\ inst.loop.http = "exited" /\ inst.loop.https = "exited")
    /\ [][(inst.stop # "returned" /\ inst'.stop = "returned") => flows' = flows]_vars

\* Stop returned on its timer and a handler it left behind is still splicing.
C34_Witness ==
    /\ inst.stop = "returned"
    /\ inst.how = "timeout"
    /\ \E f \in inst.left : flows[f].pc = "splicing" /\ flows[f].sockets = "both"

\* C35: the handler of every accepted connection returns, with both of its
\* sockets closed, whatever the client and the upstream do or leave undone.
C35_HandlersTerminate ==
    \A f \in 1..MaxFlows :
        (flows[f].pc # "free") ~> (flows[f].pc = "done" /\ flows[f].sockets = "closed")

\* C36: what a client sends on a spliced flow less than 5 minutes after the
\* connection was accepted is forwarded to the upstream.
C36_LateDataForwarded ==
    \A f \in 1..MaxFlows : flows[f].sent # "not forwarded"

----------------------------------------------------------------------------
(* The supervisor and its proxy instances                                   *)

\* C37: no proxy instance other than the one Daemon.proxy references has an
\* open listener.
C37_ProxyOwnership == ~Listening(orphan)

\* C38: while the interception rules are installed both proxy ports are
\* listened on, the states inside remove-rules included.
C38_RulesImplyListeners ==
    inst # NoInstance => (inst.rules => (inst.open.http /\ inst.open.https))

----------------------------------------------------------------------------
(* The supervisor's mode: what start-up and reload decide, what ticks do    *)

InitMode ==
    /\ stateFile \in {Absent, StateFile(StateBytes(TRUE)), StateFile(StateBytes(FALSE))}
    /\ blocklist \in Blocklists
    /\ dnsWorld \in DnsWorlds
    /\ kern = NoKernel
    /\ dnsFile = NoFile
    /\ proc = "down"
    /\ proxy = NoProxy
    /\ orphan = NoProxy
    /\ sigChan = <<>>
    /\ last = Idle
    /\ mode = "none"
    /\ StartIdle
    /\ ProxyIdle /\ SniIdle /\ MatchIdle
    /\ ResolveIdle /\ CliIdle /\ ChainIdle /\ LifeIdle
    /\ ctl = CtlIdle

ModeFrame ==
    UNCHANGED <<blocklist, dnsWorld, sigChan, last, proxyVars, sniVars, matchVars,
                resolveVars, cliVars, chainVars, lifeVars, startVars, ctl>>

\* Run, lines 41-57: the state is read and applyRules or removeRules runs;
\* an error ends the process.
ModeStart ==
    /\ proc = "down"
    /\ \E env \in Envs :
         LET st == IsEnabled(stateFile, env.fault # "stateRead")
             r == IF st.err # Nil
                  THEN [w |-> World, err |-> "checking state"]
                  ELSE IF st.enabled THEN applyRules(World, blocklist, dnsWorld, env)
                  ELSE removeRules(World, env)
         IN /\ WithinCaps(r.w)
            /\ SetWorld(IF r.err # Nil THEN ExitWorld(r.w) ELSE r.w)
            /\ proc' = IF r.err # Nil THEN "exited" ELSE "running"
            /\ mode' = IF st.err # Nil THEN mode
                       ELSE IF st.enabled THEN "enabled" ELSE "disabled"
    /\ UNCHANGED stateFile
    /\ ModeFrame

\* Run, lines 76-82: SIGHUP was received and reload runs.
ModeReload ==
    /\ proc = "running"
    /\ \E env \in Envs :
         LET r == reload(World, stateFile, blocklist, dnsWorld, env)
         IN /\ WithinCaps(r.w)
            /\ SetWorld(r.w)
            /\ mode' = IF r.ran = "apply" THEN "enabled"
                       ELSE IF r.ran = "remove" THEN "disabled" ELSE mode
    /\ UNCHANGED <<stateFile, proc>>
    /\ ModeFrame

\* Run, lines 89-103: the ticker fired.
ModeTick ==
    /\ proc = "running"
    /\ \E env \in TickEnvs :
         LET st == IsEnabled(stateFile, env.fault # "stateRead")
             r == IF st.err # Nil \/ ~st.enabled
                  THEN [w |-> World, err |-> st.err]
                  ELSE updateRules(World, blocklist, dnsWorld, env)
         IN /\ WithinCaps(r.w)
            /\ SetWorld(r.w)
    /\ UNCHANGED <<stateFile, proc, mode>>
    /\ ModeFrame

\* focusd enable / focusd disable: the state file is written; no signal is
\* sent to the daemon.
ModeSwitch(v) ==
    /\ stateFile # StateFile(StateBytes(v))
    /\ stateFile' = StateFile(StateBytes(v))
    /\ UNCHANGED <<kern, dnsFile, proc, proxy, orphan, mode>>
    /\ ModeFrame

NextMode ==
    \/ ModeStart
    \/ ModeReload
    \/ ModeTick
    \/ \E v \in BOOLEAN : ModeSwitch(v)

SpecMode == InitMode /\ [][NextMode]_vars

\* The kernel objects of focusd that k holds.
Installed(k) ==
    (IF k.ipTable THEN {"focusd"} ELSE {})
    \cup (IF k.pxTable THEN {"focusd_proxy"} ELSE {})
    \cup k.routes

----------------------------------------------------------------------------
(* TransparentProxy.Start, system call by system call                       *)

\* The calls of createTransparentListener that can return an error, in their
\* order.
ListenerCalls == <<"socket", "SO_REUSEADDR", "IP_TRANSPARENT", "bind", "listen",
                   "FileListener">>

\* createTransparentListener when the call named failAt fails ("none": no
\* call fails). fds counts the descriptors it leaves open besides the
\* listener's own: every error path after socket closes fd, and file.Close()
\* runs before the result of FileListener is looked at.
createTransparentListener(failAt) ==
    IF failAt = "socket" THEN [listener |-> FALSE, fds |-> 0, err |-> "creating socket"]
    ELSE IF failAt = "SO_REUSEADDR"
    THEN [listener |-> FALSE, fds |-> 0, err |-> "setting SO_REUSEADDR"]
    ELSE IF failAt = "IP_TRANSPARENT"
    THEN [listener |-> FALSE, fds |-> 0, err |-> "setting IP_TRANSPARENT"]
    ELSE IF failAt = "bind" THEN [listener |-> FALSE, fds |-> 0, err |-> "binding to port"]
    ELSE IF failAt = "listen" THEN [listener |-> FALSE, fds |-> 0, err |-> "listening"]
    ELSE IF failAt = "FileListener"
    THEN [listener |-> FALSE, fds |-> 0, err |-> "creating listener from fd"]
    ELSE [listener |-> TRUE, fds |-> 0, err |-> Nil]

\* bind fails on a port that another socket holds.
FailPoint(in, port) ==
    IF port \in in.busy /\ in[port] \in {"bind", "listen", "FileListener", "none"}
    THEN "bind" ELSE in[port]

\* A variant of Start that leaves the HTTP listener open when the HTTPS
\* listener cannot be created.
StartKeepingHTTP(in) ==
    LET h == createTransparentListener(FailPoint(in, "http"))
        t == createTransparentListener(FailPoint(in, "https"))
    IN IF h.err # Nil
       THEN [done |-> TRUE, err |-> "creating HTTP listener", http |-> FALSE,
             https |-> FALSE, loops |-> 0, fds |-> h.fds]
       ELSE [done |-> TRUE, err |-> IF t.err # Nil THEN "creating HTTPS listener" ELSE Nil,
             http |-> TRUE, https |-> t.listener,
             loops |-> IF t.err # Nil THEN 0 ELSE 2, fds |-> h.fds + t.fds]

\* TransparentProxy.Start
ProxyStartCalls(in) ==
    LET h == createTransparentListener(FailPoint(in, "http")) IN
    IF h.err # Nil
    THEN [done |-> TRUE, err |-> "creating HTTP listener", http |-> FALSE,
          https |-> FALSE, loops |-> 0, fds |-> h.fds]
    ELSE
    LET t == createTransparentListener(FailPoint(in, "https")) IN
    IF t.err # Nil
    THEN [done |-> TRUE, err |-> "creating HTTPS listener", http |-> FALSE,
          https |-> FALSE, loops |-> 0, fds |-> h.fds + t.fds]
    ELSE [done |-> TRUE, err |-> Nil, http |-> TRUE, https |-> TRUE, loops |-> 2,
          fds |-> h.fds + t.fds]

FailPoints == {ListenerCalls[i] : i \in DOMAIN ListenerCalls} \cup {"none"}

InitStart ==
    /\ startIn \in {[http |-> a, https |-> b, busy |-> held] :
                       a \in FailPoints, b \in FailPoints,
                       held \in SUBSET {"http", "https"}}
    /\ startOut = NotStarted
    /\ DaemonIdle
    /\ ProxyIdle /\ SniIdle /\ MatchIdle
    /\ ResolveIdle /\ CliIdle /\ ChainIdle /\ LifeIdle
    /\ mode = "none"
    /\ ctl = CtlIdle

CallStart ==
    /\ ~startOut.done
    /\ startOut' = ProxyStartCalls(startIn)
    /\ UNCHANGED <<startIn, daemonVars, proxyVars, sniVars, matchVars, resolveVars,
                   cliVars, chainVars, lifeVars, mode, ctl>>

NextStart == CallStart

SpecStart == InitStart /\ [][NextStart]_vars

\* C40: when Start returns an error no listener of the instance is open, no
\* descriptor of it is left, and no accept loop runs; and it returns an error
\* whenever a call for either listener fails.
C40_StartAllOrNothing ==
    startOut.done =>
        /\ startOut.err # Nil =>
              (~startOut.http /\ ~startOut.https /\ startOut.loops = 0 /\ startOut.fds = 0)
        /\ (FailPoint(startIn, "http") # "none" \/ FailPoint(startIn, "https") # "none")
              => startOut.err # Nil

\* The HTTP listener was created and the HTTPS port was held by another socket.
C40_Witness ==
    /\ startOut.done
    /\ startOut.err = "creating HTTPS listener"
    /\ FailPoint(startIn, "http") = "none"
    /\ "https" \in startIn.busy

====
